---- MODULE Spec2Model ----
(***************************************************************************)
(* A model of the VM lifecycle engine of fctools: the VM state machine     *)
(* (src/src/vm/mod.rs), its Management API bindings (src/src/vm/api.rs),   *)
(* shutdown and cleanup.                                                   *)
(*                                                                         *)
(* The VMM process supervisor (VmmProcess, module `process`) is not among  *)
(* the sources; it is modelled from section 4.5 of the specification.      *)
(***************************************************************************)
EXTENDS Naturals, Sequences, FiniteSets, TLC

VARIABLES
    process_state,    \* VmmProcess state: [tag, status]
    is_paused,        \* Vm.is_paused
    configuration,    \* Vm.configuration: Option<VmConfiguration>, <<>> or <<cfg>>
    standard_paths,   \* Vm.standard_paths
    snapshot_traces,  \* Vm.snapshot_traces (api.rs)
    executor,         \* the executor the VM was prepared with
    snapshot,         \* the SnapshotData a caller holds, <<>> or <<data>>
    invocation,       \* JailedVmmExecutor::invoke in progress and the jailer it spawned
    ep,               \* the executor's prepare: its inputs, staging tasks and result
    ph,               \* the ProcessHandle of the VMM process
    spawned,          \* the number of VMM processes the executor has spawned for the VM
    fs,               \* the outer paths that exist on the host
    pc,               \* position of the public operation in progress
    sd,               \* locals of Vm::shutdown: methods, index, last_result
    call              \* the public operation called last and what it did

vars == <<process_state, is_paused, configuration, standard_paths,
          snapshot_traces, executor, snapshot, invocation, ep, ph, spawned, fs, pc,
          sd, call>>

-----------------------------------------------------------------------------
(* Bounds *)

\* longest list of shutdown methods a caller passes
MaxMethods == 2
\* number of snapshots whose traces are recorded
MaxSnapshots == 1
\* number of vsock listeners a caller opens
MaxListeners == 2
\* number of drives and of network interfaces in a configuration
MaxDrives == 2
MaxNics == 1
\* number of outer paths a configuration names
MaxOuterPaths == 2
\* length of the longest string tried as a VMM identifier
MaxIdLen == 61

-----------------------------------------------------------------------------
(* Option<T> as a sequence of length at most one *)

None == <<>>
Some(x) == <<x>>
IsSome(o) == o # <<>>

-----------------------------------------------------------------------------
(* VmmProcessState and VmState *)

ExitStatuses == {0, 9}

Proc(tag) == [tag |-> tag, status |-> 0]
ProcCrashed(s) == [tag |-> "Crashed", status |-> s]

NotStarted == [tag |-> "NotStarted", status |-> 0]
Running == [tag |-> "Running", status |-> 0]
Paused == [tag |-> "Paused", status |-> 0]
Exited == [tag |-> "Exited", status |-> 0]
Crashed(s) == [tag |-> "Crashed", status |-> s]

\* Vm::state with the pause flag consulted before the process state
state_flag_first(ps, paused) ==
    IF paused /\ ps.tag \in {"Started", "Exited", "Crashed"} THEN Paused
    ELSE CASE ps.tag = "Started" -> Running
           [] ps.tag = "Exited" -> Exited
           [] ps.tag = "Crashed" -> Crashed(ps.status)
           [] OTHER -> NotStarted

\* Vm::state
state(ps, paused) ==
    CASE ps.tag = "Started" -> (IF paused THEN Paused ELSE Running)
      [] ps.tag = "Exited" -> Exited
      [] ps.tag = "Crashed" -> Crashed(ps.status)
      [] OTHER -> NotStarted

\* Vm::ensure_states without the membership test
ensure_states_unchecked(expected_states, st) == TRUE

\* Vm::ensure_states: TRUE for Ok(()), FALSE for Err(ExpectedState)
ensure_states(expected_states, st) == st \in expected_states

\* Vm::ensure_state without the comparison
ensure_state_unchecked(expected_state, st) == TRUE

\* Vm::ensure_state
ensure_state(expected_state, st) == ensure_states({expected_state}, st)

\* Vm::ensure_paused_or_running
ensure_paused_or_running(st) == ensure_states({Running, Paused}, st)

\* Vm::ensure_exited_or_crashed accepting every state
ensure_exited_or_crashed_unchecked(st) == TRUE

\* Vm::ensure_exited_or_crashed
ensure_exited_or_crashed(st) ==
    IF st.tag = "Crashed" THEN TRUE
    ELSE IF st = Exited THEN TRUE
    ELSE FALSE

-----------------------------------------------------------------------------
(* Paths: a path is the sequence of its components; an inner path may be    *)
(* written with leading "/" tokens, as the jail renamer writes it           *)

JailPath == <<"srv", "jailer", "firecracker", "1", "root">>

\* str::trim_start_matches("/")
RECURSIVE trim_start_matches(_)
trim_start_matches(path) ==
    IF path # <<>> /\ Head(path) = "/" THEN trim_start_matches(Tail(path)) ELSE path

\* PathBuf::join alone: a path that starts with "/" replaces the one it is joined to
jail_join_untrimmed(self, other_path) ==
    IF other_path # <<>> /\ Head(other_path) = "/"
    THEN trim_start_matches(other_path) ELSE self \o other_path

\* JailJoin::jail_join: the leading "/" are trimmed off, the rest is joined to self
jail_join(self, other_path) == self \o trim_start_matches(other_path)

\* VmmExecutor::inner_to_outer_path
inner_to_outer_path(ex, inner_path) ==
    IF ex = "jailed" THEN jail_join(JailPath, inner_path) ELSE inner_path

\* VmmExecutor::is_traceless
is_traceless(ex) == ex = "jailed"

-----------------------------------------------------------------------------
(* Effects: what an operation did to the outside world, in order *)

Req(method, route) == <<"request", method, route>>
Sigkill == <<"signal", "SIGKILL", "">>
StdinWrite == <<"stdin", "write_all", "reboot">>
StdinFlush == <<"stdin", "flush", "">>
WaitForExit == <<"wait_for_exit", "", "">>
ExecutorCleanup == <<"executor", "cleanup", "">>
RemoveFile(p) == <<"remove_file", p, "">>
\* VmmConfigurationOverride (vmm/arguments/mod.rs)
NoOverride == <<"NoOverride">>
Disable == <<"Disable">>
Enable(path) == <<"Enable", path>>

\* VmmArguments.config_path of the arguments the executor was built with
ArgumentsConfigPath == Some(<<"etc", "config.json">>)

\* VmmArguments::join passing its own config_path whatever the override
join_keeping_config_path(config_path, config_override) == config_path

\* VmmArguments::join: the value it passes after --config-file, if any
join(config_path, config_override) ==
    IF config_override[1] = "Enable" THEN Some(config_override[2])
    ELSE IF config_override[1] = "NoOverride" THEN config_path
    ELSE None

\* VmmProcess::invoke(config_override) and the --config-file the VMM is run with
Invoke(override) == <<"invoke", override, join(ArgumentsConfigPath, override)>>
WriteConfig(p) == <<"write", p, "">>
Bind(p) == <<"bind", p, "">>
SocketObserved == <<"try_exists", "socket_path", "true">>

IsRequest(e) == e[1] = "request"
Requests(effects) == SelectSeq(effects, IsRequest)

-----------------------------------------------------------------------------
(* VmConfiguration and the standard paths Vm::prepare_arced derives from it *)

LogInner == <<"vm.log">>
MetricsInner == <<"vm.metrics">>
VsockInner == <<"vm.vsock">>
ConfigInner == <<"vm.json">>

DriveIds == {"d0", "d1"}
IfaceIds == {"n0"}

\* the CreateSnapshot descriptors a caller passes (inner paths)
CreateSnapshots == {[snapshot_path |-> <<"vm.snapshot">>, mem_file_path |-> <<"vm.mem">>]}

NewVmConfiguration(applier, devices) ==
    [kind |-> "New", applier |-> applier,
     drives |-> <<"d0">>, cpu_template |-> FALSE, network_interfaces |-> <<"n0">>,
     balloon |-> FALSE, vsock |-> devices, logger |-> devices, metrics |-> devices,
     mmds_configuration |-> FALSE, entropy |-> FALSE]

SnapshotVmConfiguration(devices) ==
    [kind |-> "FromSnapshot", applier |-> "ViaApiCalls",
     drives |-> <<>>, cpu_template |-> FALSE, network_interfaces |-> <<>>,
     balloon |-> FALSE, vsock |-> FALSE, logger |-> devices, metrics |-> devices,
     mmds_configuration |-> FALSE, entropy |-> FALSE]

Configurations == {NewVmConfiguration("ViaApiCalls", TRUE)}

\* configurations that differ in the files Vm::cleanup may have to remove
CleanupConfigurations ==
    {[NewVmConfiguration("ViaApiCalls", TRUE)
        EXCEPT !.vsock = v, !.logger = l, !.metrics = m] : v, l, m \in BOOLEAN}

\* the sequences of at most n elements of S, none repeated
Distinct(S, n) ==
    {q \in UNION {[1..k -> S] : k \in 0..n} :
        \A i, j \in DOMAIN q : i # j => q[i] # q[j]}

\* VmConfigurationData: every choice of drives, interfaces and optional devices
VmConfigurationData ==
    [drives : Distinct(DriveIds, MaxDrives), cpu_template : BOOLEAN,
     network_interfaces : Distinct(IfaceIds, MaxNics),
     balloon : BOOLEAN, vsock : BOOLEAN, logger : BOOLEAN, metrics : BOOLEAN,
     mmds_configuration : BOOLEAN, entropy : BOOLEAN]

WithKind(data, kind, applier) ==
    [kind |-> kind, applier |-> applier,
     drives |-> data.drives, cpu_template |-> data.cpu_template,
     network_interfaces |-> data.network_interfaces,
     balloon |-> data.balloon, vsock |-> data.vsock, logger |-> data.logger,
     metrics |-> data.metrics, mmds_configuration |-> data.mmds_configuration,
     entropy |-> data.entropy]

\* the configurations a VM is started from: new ones applied through API calls, new
\* ones applied through a JSON file, and ones restored from a snapshot
StartConfigurations ==
    {WithKind(data, "New", "ViaApiCalls") : data \in VmConfigurationData}
        \cup {NewVmConfiguration("ViaJsonConfiguration", devices) : devices \in BOOLEAN}
        \cup {[NewVmConfiguration("ViaApiCalls", TRUE)
                    EXCEPT !.kind = "FromSnapshot", !.logger = l, !.metrics = m] :
                l, m \in BOOLEAN}

Executors == {"jailed", "unrestricted"}

\* Vm::prepare_arced, "generate accessible paths, ensure paths exist"
accessible_paths(ex, cfg) ==
    [log_path |-> IF cfg.logger THEN Some(inner_to_outer_path(ex, LogInner)) ELSE None,
     metrics_path |-> IF cfg.metrics THEN Some(inner_to_outer_path(ex, MetricsInner)) ELSE None,
     vsock_multiplexer_path |->
        IF cfg.kind = "New" /\ cfg.vsock
        THEN Some(inner_to_outer_path(ex, VsockInner)) ELSE None,
     vsock_listener_paths |-> <<>>]

\* the files prepare_file(path, false) has created when Vm::prepare_arced returns
prepared_files(ex, cfg) ==
    (IF cfg.logger THEN {inner_to_outer_path(ex, LogInner)} ELSE {})
        \cup (IF cfg.metrics THEN {inner_to_outer_path(ex, MetricsInner)} ELSE {})

-----------------------------------------------------------------------------
(* The request pipeline.  An outcome is <<result, sent>>: the result the   *)
(* helper returns and whether the request reached VmmProcess::             *)
(* send_api_request.                                                       *)

\* Vm::send_req_core (vm/mod.rs)
send_req_core(has_body) ==
    {<<"Ok", TRUE>>, <<"ProcessError", TRUE>>, <<"ApiResponseCouldNotBeReceived", TRUE>>,
     <<"SerdeError", TRUE>>, <<"ApiRespondedWithFault", TRUE>>,
     <<"ApiRequestNotConstructed", FALSE>>}
        \cup (IF has_body THEN {<<"SerdeError", FALSE>>} ELSE {})

\* Vm::send_req (vm/mod.rs)
send_req(has_body) ==
    send_req_core(has_body) \cup {<<"ApiResponseExpectedEmpty", TRUE>>}

\* Vm::send_req_with_resp (vm/mod.rs)
send_req_with_resp(has_body) == send_req_core(has_body)

\* send_api_request_internal (vm/api.rs)
send_api_request_internal(has_body) ==
    {<<"Ok", TRUE>>, <<"ConnectionError", TRUE>>, <<"ResponseBodyReceiveError", TRUE>>,
     <<"SerdeError", TRUE>>, <<"ReceivedErrorResponse", TRUE>>,
     <<"RequestBuildError", FALSE>>}
        \cup (IF has_body THEN {<<"SerdeError", FALSE>>} ELSE {})

\* send_api_request (vm/api.rs)
send_api_request(has_body) ==
    send_api_request_internal(has_body) \cup {<<"ResponseBodyContainsUnexpectedData", TRUE>>}

\* send_api_request_with_response (vm/api.rs)
send_api_request_with_response(has_body) == send_api_request_internal(has_body)

\* VmmProcess::send_api_request, as api_custom_request calls it
process_send_api_request(error) == {<<"Ok", TRUE>>, <<error, TRUE>>}

-----------------------------------------------------------------------------
(* Returning from a public operation *)

Snapshot(ps, paused, traces, files) ==
    [process_state |-> ps, is_paused |-> paused, snapshot_traces |-> traces, fs |-> files]

\* the locals of Vm::shutdown while no shutdown is in progress or has just returned
NoShutdown == [methods |-> <<>>, k |-> 1, last_result |-> "Ok", attempts |-> <<>>]

\* what the caller and the outside world see of a call: its result, the value it
\* returns, its effects in order, and the VM before and after it
RecordOf(op, impl, input, st, result, value, effects) ==
    call' = [op |-> op, impl |-> impl, input |-> input, actual |-> st, result |-> result,
             value |-> value, effects |-> effects,
             pre |-> Snapshot(process_state, is_paused, snapshot_traces, fs),
             post |-> Snapshot(process_state', is_paused', snapshot_traces', fs')]

\* a call whose arguments the record does not keep
Record(op, impl, st, result, value, effects) ==
    RecordOf(op, impl, None, st, result, value, effects)

\* the operation returns result, having caused effects and set is_paused and the traces
Return(op, impl, st, result, value, effects, new_is_paused, new_traces) ==
    /\ pc = "idle"
    /\ is_paused' = new_is_paused
    /\ snapshot_traces' = new_traces
    /\ sd' = NoShutdown
    /\ UNCHANGED <<process_state, configuration, standard_paths, executor, snapshot, invocation, ep, ph, spawned, fs, pc>>
    /\ Record(op, impl, st, result, value, effects)

\* map_err(StateCheckError)?: the state check failed and the operation returns at once
StateCheckError(op, impl, st) ==
    Return(op, impl, st, "ExpectedState", None, <<>>, is_paused, snapshot_traces)

\* the operation sends one request and returns the pipeline's result
Sends(op, impl, st, o, request, new_is_paused, new_traces) ==
    Return(op, impl, st, o[1], None, IF o[2] THEN <<request>> ELSE <<>>,
           new_is_paused, new_traces)


-----------------------------------------------------------------------------
(* The Management API operations of vm/mod.rs (inherent methods of Vm) *)

\* Vm::api_get_info (vm/mod.rs)
Vm_api_get_info ==
    LET st == state(process_state, is_paused) IN
    IF ~ensure_paused_or_running(st) THEN StateCheckError("api_get_info", "Vm", st)
    ELSE \E o \in send_req_with_resp(FALSE) :
            Sends("api_get_info", "Vm", st, o, Req("GET", "/"), is_paused, snapshot_traces)

\* Vm::api_flush_metrics (vm/mod.rs)
Vm_api_flush_metrics ==
    LET st == state(process_state, is_paused) IN
    IF ~ensure_paused_or_running(st) THEN StateCheckError("api_flush_metrics", "Vm", st)
    ELSE \E o \in send_req(TRUE) :
            Sends("api_flush_metrics", "Vm", st, o, Req("PUT", "/actions"), is_paused, snapshot_traces)

\* Vm::api_get_balloon (vm/mod.rs)
Vm_api_get_balloon ==
    LET st == state(process_state, is_paused) IN
    IF ~ensure_paused_or_running(st) THEN StateCheckError("api_get_balloon", "Vm", st)
    ELSE \E o \in send_req_with_resp(FALSE) :
            Sends("api_get_balloon", "Vm", st, o, Req("GET", "/balloon"), is_paused, snapshot_traces)

\* Vm::api_update_balloon (vm/mod.rs)
Vm_api_update_balloon ==
    LET st == state(process_state, is_paused) IN
    IF ~ensure_paused_or_running(st) THEN StateCheckError("api_update_balloon", "Vm", st)
    ELSE \E o \in send_req(TRUE) :
            Sends("api_update_balloon", "Vm", st, o, Req("PATCH", "/balloon"), is_paused, snapshot_traces)

\* Vm::api_get_balloon_statistics (vm/mod.rs)
Vm_api_get_balloon_statistics ==
    LET st == state(process_state, is_paused) IN
    IF ~ensure_state(Running, st) THEN StateCheckError("api_get_balloon_statistics", "Vm", st)
    ELSE \E o \in send_req_with_resp(FALSE) :
            Sends("api_get_balloon_statistics", "Vm", st, o, Req("GET", "/balloon/statistics"), is_paused, snapshot_traces)

\* Vm::api_update_balloon_statistics (vm/mod.rs)
Vm_api_update_balloon_statistics ==
    LET st == state(process_state, is_paused) IN
    IF ~ensure_paused_or_running(st) THEN StateCheckError("api_update_balloon_statistics", "Vm", st)
    ELSE \E o \in send_req(TRUE) :
            Sends("api_update_balloon_statistics", "Vm", st, o, Req("PATCH", "/balloon/statistics"), is_paused, snapshot_traces)

\* Vm::api_update_drive (vm/mod.rs)
Vm_api_update_drive ==
    LET st == state(process_state, is_paused) IN
    IF ~ensure_paused_or_running(st) THEN StateCheckError("api_update_drive", "Vm", st)
    ELSE \E drive_id \in DriveIds, o \in send_req(TRUE) :
            Sends("api_update_drive", "Vm", st, o, Req("PATCH", "/drives/" \o drive_id), is_paused, snapshot_traces)

\* Vm::api_update_network_interface (vm/mod.rs)
Vm_api_update_network_interface ==
    LET st == state(process_state, is_paused) IN
    IF ~ensure_paused_or_running(st) THEN StateCheckError("api_update_network_interface", "Vm", st)
    ELSE \E iface_id \in IfaceIds, o \in send_req(TRUE) :
            Sends("api_update_network_interface", "Vm", st, o, Req("PATCH", "/network-interfaces/" \o iface_id), is_paused, snapshot_traces)

\* Vm::api_get_machine_configuration (vm/mod.rs)
Vm_api_get_machine_configuration ==
    LET st == state(process_state, is_paused) IN
    IF ~ensure_paused_or_running(st) THEN StateCheckError("api_get_machine_configuration", "Vm", st)
    ELSE \E o \in send_req_with_resp(FALSE) :
            Sends("api_get_machine_configuration", "Vm", st, o, Req("GET", "/machine-config"), is_paused, snapshot_traces)

\* Vm::api_get_firecracker_version (vm/mod.rs)
Vm_api_get_firecracker_version ==
    LET st == state(process_state, is_paused) IN
    IF ~ensure_paused_or_running(st) THEN StateCheckError("api_get_firecracker_version", "Vm", st)
    ELSE \E o \in send_req_with_resp(FALSE) :
            Sends("api_get_firecracker_version", "Vm", st, o, Req("GET", "/version"), is_paused, snapshot_traces)

\* Vm::api_create_mmds (vm/mod.rs)
Vm_api_create_mmds ==
    LET st == state(process_state, is_paused) IN
    IF ~ensure_paused_or_running(st) THEN StateCheckError("api_create_mmds", "Vm", st)
    ELSE \E o \in send_req(TRUE) :
            Sends("api_create_mmds", "Vm", st, o, Req("PUT", "/mmds"), is_paused, snapshot_traces)

\* Vm::api_update_mmds (vm/mod.rs)
Vm_api_update_mmds ==
    LET st == state(process_state, is_paused) IN
    IF ~ensure_paused_or_running(st) THEN StateCheckError("api_update_mmds", "Vm", st)
    ELSE \E o \in send_req(TRUE) :
            Sends("api_update_mmds", "Vm", st, o, Req("PATCH", "/mmds"), is_paused, snapshot_traces)

\* Vm::api_get_mmds (vm/mod.rs)
Vm_api_get_mmds ==
    LET st == state(process_state, is_paused) IN
    IF ~ensure_paused_or_running(st) THEN StateCheckError("api_get_mmds", "Vm", st)
    ELSE \E o \in send_req_with_resp(FALSE) :
            Sends("api_get_mmds", "Vm", st, o, Req("GET", "/mmds"), is_paused, snapshot_traces)

\* Vm::api_create_snapshot (vm/mod.rs): returns the outer paths, records nothing
Vm_api_create_snapshot ==
    LET st == state(process_state, is_paused) IN
    IF ~ensure_state(Paused, st) THEN StateCheckError("api_create_snapshot", "Vm", st)
    ELSE \E create_snapshot \in CreateSnapshots, o \in send_req(TRUE) :
            Return("api_create_snapshot", "Vm", st, o[1],
                   IF o[1] = "Ok"
                   THEN Some([snapshot_path |->
                                  inner_to_outer_path(executor, create_snapshot.snapshot_path),
                              mem_file_path |->
                                  inner_to_outer_path(executor, create_snapshot.mem_file_path)])
                   ELSE None,
                   IF o[2] THEN <<Req("PUT", "/snapshot/create")>> ELSE <<>>,
                   is_paused, snapshot_traces)

\* Vm::api_get_effective_configuration (vm/mod.rs): sets is_paused = false after the fetch
Vm_api_get_effective_configuration ==
    LET st == state(process_state, is_paused) IN
    IF ~ensure_paused_or_running(st)
    THEN StateCheckError("api_get_effective_configuration", "Vm", st)
    ELSE \E o \in send_req_with_resp(FALSE) :
            Sends("api_get_effective_configuration", "Vm", st, o, Req("GET", "/vm/config"),
                  IF o[1] = "Ok" THEN FALSE ELSE is_paused, snapshot_traces)

\* Vm::api_pause (vm/mod.rs)
Vm_api_pause ==
    LET st == state(process_state, is_paused) IN
    IF ~ensure_state(Running, st) THEN StateCheckError("api_pause", "Vm", st)
    ELSE \E o \in send_req(TRUE) :
            Sends("api_pause", "Vm", st, o, Req("PATCH", "/vm"),
                  IF o[1] = "Ok" THEN TRUE ELSE is_paused, snapshot_traces)

\* Vm::api_resume (vm/mod.rs)
Vm_api_resume ==
    LET st == state(process_state, is_paused) IN
    IF ~ensure_state(Paused, st) THEN StateCheckError("api_resume", "Vm", st)
    ELSE \E o \in send_req(TRUE) :
            Sends("api_resume", "Vm", st, o, Req("PATCH", "/vm"),
                  IF o[1] = "Ok" THEN FALSE ELSE is_paused, snapshot_traces)

\* Vm::api_custom_request (vm/mod.rs)
Vm_api_custom_request ==
    LET st == state(process_state, is_paused) IN
    IF ~ensure_paused_or_running(st) THEN StateCheckError("api_custom_request", "Vm", st)
    ELSE \E new_is_paused \in {None, Some(TRUE), Some(FALSE)},
            o \in process_send_api_request("ProcessError") :
            Sends("api_custom_request", "Vm", st, o, Req("CUSTOM", "/custom"),
                  IF o[1] = "Ok" /\ IsSome(new_is_paused) THEN new_is_paused[1] ELSE is_paused,
                  snapshot_traces)

-----------------------------------------------------------------------------
(* The Management API bindings of vm/api.rs (impl VmApi for Vm) *)

\* VmApi::api_pause with the flag left as it was after a successful request
VmApi_api_pause_no_flip ==
    LET st == state(process_state, is_paused) IN
    IF ~ensure_state(Running, st) THEN StateCheckError("api_pause", "VmApi", st)
    ELSE \E o \in send_api_request(TRUE) :
            Sends("api_pause", "VmApi", st, o, Req("PATCH", "/vm"), is_paused, snapshot_traces)

\* VmApi::api_resume with the flag cleared before the request's result is known
VmApi_api_resume_eager ==
    LET st == state(process_state, is_paused) IN
    IF ~ensure_state(Paused, st) THEN StateCheckError("api_resume", "VmApi", st)
    ELSE \E o \in send_api_request(TRUE) :
            Sends("api_resume", "VmApi", st, o, Req("PATCH", "/vm"), FALSE, snapshot_traces)

\* VmApi::api_get_info (vm/api.rs)
VmApi_api_get_info ==
    LET st == state(process_state, is_paused) IN
    IF ~ensure_paused_or_running(st) THEN StateCheckError("api_get_info", "VmApi", st)
    ELSE \E o \in send_api_request_with_response(FALSE) :
            Sends("api_get_info", "VmApi", st, o, Req("GET", "/"), is_paused, snapshot_traces)

\* VmApi::api_flush_metrics (vm/api.rs)
VmApi_api_flush_metrics ==
    LET st == state(process_state, is_paused) IN
    IF ~ensure_paused_or_running(st) THEN StateCheckError("api_flush_metrics", "VmApi", st)
    ELSE \E o \in send_api_request(TRUE) :
            Sends("api_flush_metrics", "VmApi", st, o, Req("PUT", "/actions"), is_paused, snapshot_traces)

\* VmApi::api_get_balloon_device (vm/api.rs)
VmApi_api_get_balloon_device ==
    LET st == state(process_state, is_paused) IN
    IF ~ensure_paused_or_running(st) THEN StateCheckError("api_get_balloon_device", "VmApi", st)
    ELSE \E o \in send_api_request_with_response(FALSE) :
            Sends("api_get_balloon_device", "VmApi", st, o, Req("GET", "/balloon"), is_paused, snapshot_traces)

\* VmApi::api_update_balloon_device (vm/api.rs)
VmApi_api_update_balloon_device ==
    LET st == state(process_state, is_paused) IN
    IF ~ensure_paused_or_running(st) THEN StateCheckError("api_update_balloon_device", "VmApi", st)
    ELSE \E o \in send_api_request(TRUE) :
            Sends("api_update_balloon_device", "VmApi", st, o, Req("PATCH", "/balloon"), is_paused, snapshot_traces)

\* VmApi::api_get_balloon_statistics (vm/api.rs)
VmApi_api_get_balloon_statistics ==
    LET st == state(process_state, is_paused) IN
    IF ~ensure_state(Running, st) THEN StateCheckError("api_get_balloon_statistics", "VmApi", st)
    ELSE \E o \in send_api_request_with_response(FALSE) :
            Sends("api_get_balloon_statistics", "VmApi", st, o, Req("GET", "/balloon/statistics"), is_paused, snapshot_traces)

\* VmApi::api_update_balloon_statistics (vm/api.rs)
VmApi_api_update_balloon_statistics ==
    LET st == state(process_state, is_paused) IN
    IF ~ensure_paused_or_running(st) THEN StateCheckError("api_update_balloon_statistics", "VmApi", st)
    ELSE \E o \in send_api_request(TRUE) :
            Sends("api_update_balloon_statistics", "VmApi", st, o, Req("PATCH", "/balloon/statistics"), is_paused, snapshot_traces)

\* VmApi::api_update_drive (vm/api.rs)
VmApi_api_update_drive ==
    LET st == state(process_state, is_paused) IN
    IF ~ensure_paused_or_running(st) THEN StateCheckError("api_update_drive", "VmApi", st)
    ELSE \E drive_id \in DriveIds, o \in send_api_request(TRUE) :
            Sends("api_update_drive", "VmApi", st, o, Req("PATCH", "/drives/" \o drive_id), is_paused, snapshot_traces)

\* VmApi::api_update_network_interface (vm/api.rs)
VmApi_api_update_network_interface ==
    LET st == state(process_state, is_paused) IN
    IF ~ensure_paused_or_running(st) THEN StateCheckError("api_update_network_interface", "VmApi", st)
    ELSE \E iface_id \in IfaceIds, o \in send_api_request(TRUE) :
            Sends("api_update_network_interface", "VmApi", st, o, Req("PATCH", "/network-interfaces/" \o iface_id), is_paused, snapshot_traces)

\* VmApi::api_get_machine_configuration (vm/api.rs)
VmApi_api_get_machine_configuration ==
    LET st == state(process_state, is_paused) IN
    IF ~ensure_paused_or_running(st) THEN StateCheckError("api_get_machine_configuration", "VmApi", st)
    ELSE \E o \in send_api_request_with_response(FALSE) :
            Sends("api_get_machine_configuration", "VmApi", st, o, Req("GET", "/machine-config"), is_paused, snapshot_traces)

\* VmApi::api_get_firecracker_version (vm/api.rs)
VmApi_api_get_firecracker_version ==
    LET st == state(process_state, is_paused) IN
    IF ~ensure_paused_or_running(st) THEN StateCheckError("api_get_firecracker_version", "VmApi", st)
    ELSE \E o \in send_api_request_with_response(FALSE) :
            Sends("api_get_firecracker_version", "VmApi", st, o, Req("GET", "/version"), is_paused, snapshot_traces)

\* VmApi::api_create_mmds (vm/api.rs)
VmApi_api_create_mmds ==
    LET st == state(process_state, is_paused) IN
    IF ~ensure_paused_or_running(st) THEN StateCheckError("api_create_mmds", "VmApi", st)
    ELSE \E o \in send_api_request(TRUE) :
            Sends("api_create_mmds", "VmApi", st, o, Req("PUT", "/mmds"), is_paused, snapshot_traces)

\* VmApi::api_update_mmds (vm/api.rs)
VmApi_api_update_mmds ==
    LET st == state(process_state, is_paused) IN
    IF ~ensure_paused_or_running(st) THEN StateCheckError("api_update_mmds", "VmApi", st)
    ELSE \E o \in send_api_request(TRUE) :
            Sends("api_update_mmds", "VmApi", st, o, Req("PATCH", "/mmds"), is_paused, snapshot_traces)

\* VmApi::api_get_mmds (vm/api.rs)
VmApi_api_get_mmds ==
    LET st == state(process_state, is_paused) IN
    IF ~ensure_paused_or_running(st) THEN StateCheckError("api_get_mmds", "VmApi", st)
    ELSE \E o \in send_api_request_with_response(FALSE) :
            Sends("api_get_mmds", "VmApi", st, o, Req("GET", "/mmds"), is_paused, snapshot_traces)

\* VmApi::api_create_mmds_untyped (vm/api.rs)
VmApi_api_create_mmds_untyped ==
    LET st == state(process_state, is_paused) IN
    IF ~ensure_paused_or_running(st) THEN StateCheckError("api_create_mmds_untyped", "VmApi", st)
    ELSE \E o \in send_api_request(TRUE) :
            Sends("api_create_mmds_untyped", "VmApi", st, o, Req("PUT", "/mmds"), is_paused, snapshot_traces)

\* VmApi::api_update_mmds_untyped (vm/api.rs)
VmApi_api_update_mmds_untyped ==
    LET st == state(process_state, is_paused) IN
    IF ~ensure_paused_or_running(st) THEN StateCheckError("api_update_mmds_untyped", "VmApi", st)
    ELSE \E o \in send_api_request(TRUE) :
            Sends("api_update_mmds_untyped", "VmApi", st, o, Req("PATCH", "/mmds"), is_paused, snapshot_traces)

\* VmApi::api_get_mmds_untyped (vm/api.rs)
VmApi_api_get_mmds_untyped ==
    LET st == state(process_state, is_paused) IN
    IF ~ensure_paused_or_running(st) THEN StateCheckError("api_get_mmds_untyped", "VmApi", st)
    ELSE \E o \in send_api_request_with_response(FALSE) :
            Sends("api_get_mmds_untyped", "VmApi", st, o, Req("GET", "/mmds"), is_paused, snapshot_traces)

\* VmApi::api_create_snapshot (vm/api.rs): a non-traceless executor's VM records both
\* outer paths in snapshot_traces
VmApi_api_create_snapshot ==
    LET st == state(process_state, is_paused) IN
    IF ~ensure_state(Paused, st) THEN StateCheckError("api_create_snapshot", "VmApi", st)
    ELSE \E create_snapshot \in CreateSnapshots, o \in send_api_request(TRUE) :
         LET snapshot_path == inner_to_outer_path(executor, create_snapshot.snapshot_path)
             mem_file_path == inner_to_outer_path(executor, create_snapshot.mem_file_path)
         IN
            /\ o[1] = "Ok" /\ ~is_traceless(executor)
                   => Len(snapshot_traces) < 2 * MaxSnapshots
            /\ Return("api_create_snapshot", "VmApi", st, o[1],
                      IF o[1] = "Ok"
                      THEN Some([snapshot_path |-> snapshot_path,
                                 mem_file_path |-> mem_file_path])
                      ELSE None,
                      IF o[2] THEN <<Req("PUT", "/snapshot/create")>> ELSE <<>>,
                      is_paused,
                      IF o[1] = "Ok" /\ ~is_traceless(executor)
                      THEN Append(Append(snapshot_traces, snapshot_path), mem_file_path)
                      ELSE snapshot_traces)

\* VmApi::api_get_effective_configuration (vm/api.rs)
VmApi_api_get_effective_configuration ==
    LET st == state(process_state, is_paused) IN
    IF ~ensure_paused_or_running(st)
    THEN StateCheckError("api_get_effective_configuration", "VmApi", st)
    ELSE \E o \in send_api_request_with_response(FALSE) :
            Sends("api_get_effective_configuration", "VmApi", st, o, Req("GET", "/vm/config"),
                  is_paused, snapshot_traces)

\* VmApi::api_pause (vm/api.rs)
VmApi_api_pause ==
    LET st == state(process_state, is_paused) IN
    IF ~ensure_state(Running, st) THEN StateCheckError("api_pause", "VmApi", st)
    ELSE \E o \in send_api_request(TRUE) :
            Sends("api_pause", "VmApi", st, o, Req("PATCH", "/vm"),
                  IF o[1] = "Ok" THEN TRUE ELSE is_paused, snapshot_traces)

\* VmApi::api_resume (vm/api.rs)
VmApi_api_resume ==
    LET st == state(process_state, is_paused) IN
    IF ~ensure_state(Paused, st) THEN StateCheckError("api_resume", "VmApi", st)
    ELSE \E o \in send_api_request(TRUE) :
            Sends("api_resume", "VmApi", st, o, Req("PATCH", "/vm"),
                  IF o[1] = "Ok" THEN FALSE ELSE is_paused, snapshot_traces)

\* VmApi::api_custom_request (vm/api.rs)
VmApi_api_custom_request ==
    LET st == state(process_state, is_paused) IN
    IF ~ensure_paused_or_running(st) THEN StateCheckError("api_custom_request", "VmApi", st)
    ELSE \E new_is_paused \in {None, Some(TRUE), Some(FALSE)},
            o \in process_send_api_request("ConnectionError") :
            Sends("api_custom_request", "VmApi", st, o, Req("CUSTOM", "/custom"),
                  IF o[1] = "Ok" /\ IsSome(new_is_paused) THEN new_is_paused[1] ELSE is_paused,
                  snapshot_traces)

-----------------------------------------------------------------------------
(* Vm::start *)

Opt(present, x) == IF present THEN <<x>> ELSE <<>>

DriveRequests(drives) ==
    [i \in 1..Len(drives) |-> Req("PUT", "/drives/" \o drives[i])]

NetworkInterfaceRequests(network_interfaces) ==
    [i \in 1..Len(network_interfaces) |->
        Req("PUT", "/network-interfaces/" \o network_interfaces[i])]

\* the requests of Vm::start with the machine configuration sent before the drives
boot_requests_machine_first(cfg) ==
    <<Req("PUT", "/boot-source"), Req("PUT", "/machine-config")>>
        \o DriveRequests(cfg.drives)
        \o NetworkInterfaceRequests(cfg.network_interfaces)
        \o <<Req("PUT", "/actions")>>

\* the requests of the match on the configuration in Vm::start, in order
boot_requests(cfg) ==
    IF cfg.kind = "New"
    THEN <<Req("PUT", "/boot-source")>>
            \o DriveRequests(cfg.drives)
            \o <<Req("PUT", "/machine-config")>>
            \o Opt(cfg.cpu_template, Req("PUT", "/cpu-config"))
            \o NetworkInterfaceRequests(cfg.network_interfaces)
            \o Opt(cfg.balloon, Req("PUT", "/balloon"))
            \o Opt(cfg.vsock, Req("PUT", "/vsock"))
            \o Opt(cfg.logger, Req("PUT", "/logger"))
            \o Opt(cfg.metrics, Req("PUT", "/metrics"))
            \o Opt(cfg.mmds_configuration, Req("PUT", "/mmds/config"))
            \o Opt(cfg.entropy, Req("PUT", "/entropy"))
            \o <<Req("PUT", "/actions")>>
    ELSE Opt(cfg.logger, Req("PUT", "/logger"))
            \o Opt(cfg.metrics, Req("PUT", "/metrics"))
            \o <<Req("PUT", "/snapshot/load")>>

\* Vm::start sending its first request without waiting for the socket
start_runs_no_wait(cfg) ==
    {[step |-> "socket", result |-> "Timeout", last_sent |-> FALSE,
      sent |-> IF cfg.kind = "New" /\ cfg.applier = "ViaJsonConfiguration" THEN 0 ELSE 1]}

\* the ways Vm::start can run for cfg: the step it returns from, its result, and the
\* number of boot requests answered with success before it
start_runs(cfg) ==
    LET json == cfg.kind = "New" /\ cfg.applier = "ViaJsonConfiguration"
        reqs == IF json THEN <<>> ELSE boot_requests(cfg)
    IN  (IF json
         THEN {[step |-> "prepare_file", result |-> "IoError", sent |-> 0, last_sent |-> FALSE],
               [step |-> "to_string", result |-> "SerdeError", sent |-> 0, last_sent |-> FALSE],
               [step |-> "write", result |-> "IoError", sent |-> 0, last_sent |-> FALSE]}
         ELSE {})
        \cup {[step |-> "invoke", result |-> "ProcessError", sent |-> 0, last_sent |-> FALSE],
              [step |-> "socket", result |-> "Timeout", sent |-> 0, last_sent |-> FALSE],
              [step |-> "socket", result |-> "IoError", sent |-> 0, last_sent |-> FALSE],
              [step |-> "done", result |-> "Ok", sent |-> Len(reqs), last_sent |-> FALSE]}
        \cup {[step |-> "boot", result |-> o[1], sent |-> n, last_sent |-> o[2]] :
                n \in 0..(Len(reqs) - 1), o \in send_req(TRUE) \ {<<"Ok", TRUE>>}}

\* a start that leaves the VMM recorded as started only when it returns Ok
is_invoked_when_done(step) == step = "done"

\* the steps of Vm::start that lie after vmm_process.invoke has returned Ok: from
\* there on the VMM process is Started, whatever start returns
is_invoked(step) == step \in {"socket", "boot", "done"}

\* the boot requests going on after one of them was answered with an error
sent_requests_continuing(reqs, answered, last_sent) ==
    IF last_sent THEN reqs ELSE SubSeq(reqs, 1, answered)

\* `.await?` after every boot request: of reqs, those answered with success and, if it
\* left the process, the one that failed; none after it
sent_requests(reqs, answered, last_sent) ==
    SubSeq(reqs, 1, answered + (IF last_sent THEN 1 ELSE 0))

\* Vm::start; the record keeps the number of boot requests answered with success
start ==
    /\ pc = "idle"
    /\ LET st == state(process_state, is_paused) IN
       IF ~ensure_state(NotStarted, st) THEN StateCheckError("start", "Vm", st)
       ELSE IF configuration = None
       THEN \* .expect("No configuration cannot exist for a VM, unreachable")
            Return("start", "Vm", st, "panic", None, <<>>, is_paused, snapshot_traces)
       ELSE \E run \in start_runs(configuration[1]) :
            LET cfg == configuration[1]
                json == cfg.kind = "New" /\ cfg.applier = "ViaJsonConfiguration"
                config_path == inner_to_outer_path(executor, ConfigInner)
                written == json /\ run.step \notin {"prepare_file", "to_string", "write"}
                invoked == is_invoked(run.step)
                reqs == IF json THEN <<>> ELSE boot_requests(cfg)
                requests == sent_requests(reqs, run.sent, run.last_sent)
                bound == /\ invoked /\ IsSome(standard_paths.vsock_multiplexer_path)
                         /\ \/ json /\ run.step = "done"
                            \/ Req("PUT", "/vsock") \in
                                   {reqs[i] : i \in 1..run.sent}
            IN  /\ configuration' = None
                /\ process_state' = IF invoked THEN Proc("Started") ELSE process_state
                /\ fs' = fs \cup (IF written THEN {config_path} ELSE {})
                            \cup (IF bound THEN {standard_paths.vsock_multiplexer_path[1]}
                                  ELSE {})
                /\ sd' = NoShutdown
                /\ spawned' = IF invoked THEN spawned + 1 ELSE spawned
                /\ UNCHANGED <<is_paused, standard_paths, snapshot_traces, executor, snapshot, invocation, ep, ph, pc>>
                /\ RecordOf("start", "Vm", Some(cfg), st, run.result, Some(run.sent),
                            Opt(written, WriteConfig(config_path))
                                \o Opt(run.step \notin {"prepare_file", "to_string", "write"},
                                       Invoke(IF json THEN Enable(ConfigInner) ELSE NoOverride))
                                \o Opt(run.step \in {"boot", "done"}, SocketObserved)
                                \o requests)

-----------------------------------------------------------------------------
(* init_new and init_restored_from_snapshot (vm/api.rs) *)

\* init_new: the requests it sends when none fails
init_new(data) ==
    <<Req("PUT", "/boot-source")>>
        \o [i \in 1..Len(data.drives) |-> Req("PUT", "/drives/" \o data.drives[i])]
        \o <<Req("PUT", "/machine-config")>>
        \o (IF data.cpu_template THEN <<Req("PUT", "/cpu-config")>> ELSE <<>>)
        \o [i \in 1..Len(data.network_interfaces) |->
                Req("PUT", "/network-interfaces/" \o data.network_interfaces[i])]
        \o (IF data.balloon THEN <<Req("PUT", "/balloon")>> ELSE <<>>)
        \o (IF data.vsock THEN <<Req("PUT", "/vsock")>> ELSE <<>>)
        \o (IF data.logger THEN <<Req("PUT", "/logger")>> ELSE <<>>)
        \o (IF data.metrics THEN <<Req("PUT", "/metrics")>> ELSE <<>>)
        \o (IF data.mmds_configuration THEN <<Req("PUT", "/mmds/config")>> ELSE <<>>)
        \o (IF data.entropy THEN <<Req("PUT", "/entropy")>> ELSE <<>>)
        \o <<Req("PUT", "/actions")>>

\* init_restored_from_snapshot loading the snapshot before the logger and metrics
init_restored_from_snapshot_load_first(data) ==
    <<Req("PUT", "/snapshot/load")>>
        \o (IF data.logger THEN <<Req("PUT", "/logger")>> ELSE <<>>)
        \o (IF data.metrics THEN <<Req("PUT", "/metrics")>> ELSE <<>>)

\* init_restored_from_snapshot: the requests it sends when none fails
init_restored_from_snapshot(data) ==
    (IF data.logger THEN <<Req("PUT", "/logger")>> ELSE <<>>)
        \o (IF data.metrics THEN <<Req("PUT", "/metrics")>> ELSE <<>>)
        \o <<Req("PUT", "/snapshot/load")>>

\* init_new or init_restored_from_snapshot runs on a VM whose VMM has just been
\* spawned: each request goes through send_api_request and the first error returns.
\* The caller, the start of the VmApi version, is not among the sources.
VmApi_init ==
    /\ pc = "idle"
    /\ process_state.tag = "AwaitingStart"
    /\ configuration # None
    /\ configuration[1].applier = "ViaApiCalls"
    /\ LET cfg == configuration[1]
           st == state(process_state, is_paused)
           reqs == IF cfg.kind = "New" THEN init_new(cfg)
                   ELSE init_restored_from_snapshot(cfg)
       IN  \E n \in 0..Len(reqs), o \in send_api_request(TRUE) :
            /\ (o[1] = "Ok") <=> (n = Len(reqs))
            /\ LET requests == sent_requests(reqs, n, n < Len(reqs) /\ o[2])
                   bound == /\ IsSome(standard_paths.vsock_multiplexer_path)
                            /\ Req("PUT", "/vsock") \in {reqs[i] : i \in 1..n}
               IN  /\ configuration' = None
                   /\ process_state' = Proc("Started")
                   /\ spawned' = spawned + 1
                   /\ fs' = fs \cup (IF bound THEN {standard_paths.vsock_multiplexer_path[1]}
                                     ELSE {})
                   /\ sd' = NoShutdown
                   /\ UNCHANGED <<is_paused, standard_paths, snapshot_traces, executor, snapshot, invocation, ep, ph, pc>>
                   /\ RecordOf("init", "VmApi", Some(cfg), st, o[1], Some(n), requests)

-----------------------------------------------------------------------------
(* The VMM process, as VmmProcess observes it *)

\* the VMM exits on its own: VmmProcess records Exited (status 0) or Crashed(status)
\* While a shutdown is in progress the record of the call goes on; otherwise the exit
\* is the last thing that happened to the VM.
vmm_exits ==
    /\ process_state.tag = "Started"
    /\ \E status \in ExitStatuses :
          process_state' = IF status = 0 THEN Proc("Exited") ELSE ProcCrashed(status)
    /\ UNCHANGED <<is_paused, configuration, standard_paths, snapshot_traces, executor, snapshot, invocation, ep, ph, spawned,
                   fs, pc>>
    /\ IF pc = "idle"
       THEN /\ sd' = NoShutdown
            /\ Record("exit", "VmmProcess", state(process_state, is_paused), "Ok", None, <<>>)
       ELSE UNCHANGED <<sd, call>>

\* a request the VmmProcess sends for the VM: only a Started process receives it
process_outcomes(outcomes, ps) ==
    IF ps.tag = "Started" THEN outcomes
    ELSE {o \in outcomes : ~o[2]} \cup {<<"ProcessError", FALSE>>}

-----------------------------------------------------------------------------
(* Vm::shutdown *)

ShutdownMethods == {"CtrlAltDel", "PauseThenKill", "WriteRebootToStdin", "Kill"}

\* the lists of shutdown methods a caller passes
MethodLists == UNION {[1..n -> ShutdownMethods] : n \in 0..MaxMethods}

\* an operation in progress goes on: its effects so far grow, its result may be known
Progress(result, effects) ==
    call' = [call EXCEPT !.result = result,
                         !.effects = @ \o effects,
                         !.post = Snapshot(process_state', is_paused', snapshot_traces', fs')]

\* one arm of the match on shutdown_method: the value given to last_result, the effects
\* of the arm, and whether the arm returns from shutdown (the ? operator)
shutdown_arm(shutdown_method, ps) ==
    CASE shutdown_method = "CtrlAltDel" ->
            {[result |-> o[1], returns |-> FALSE,
              effects |-> IF o[2] THEN <<Req("PUT", "/actions")>> ELSE <<>>] :
                o \in process_outcomes({<<"Ok", TRUE>>, <<"ProcessError", TRUE>>}, ps)}
      [] shutdown_method = "PauseThenKill" ->
            {[result |-> o[1], returns |-> FALSE,
              effects |-> IF o[2] THEN <<Req("PATCH", "/vm")>> ELSE <<>>] :
                o \in process_outcomes(send_req(TRUE), ps)}
      [] shutdown_method = "WriteRebootToStdin" ->
            {[result |-> "IoError", returns |-> TRUE, effects |-> <<>>],
             [result |-> "IoError", returns |-> FALSE, effects |-> <<StdinWrite>>],
             [result |-> "Ok", returns |-> FALSE, effects |-> <<StdinWrite, StdinFlush>>]}
      [] shutdown_method = "Kill" ->
            {[result |-> "ProcessError", returns |-> FALSE, effects |-> <<>>]}
                \cup (IF ps.tag = "Started"
                      THEN {[result |-> "Ok", returns |-> FALSE, effects |-> <<Sigkill>>]}
                      ELSE {})

\* tokio::time::timeout(timeout, wait_for_exit()) .map_err(|_| Timeout) .map(|_| ()):
\* the value given to last_result and the process state afterwards.  The result of
\* wait_for_exit itself is dropped by map(|_| ()).
shutdown_waits(ps) ==
    IF ps.tag = "Started"
    THEN {[result |-> "Ok", wait |-> "exited",
           process_state |-> IF status = 0 THEN Proc("Exited") ELSE ProcCrashed(status)] :
             status \in ExitStatuses}
            \cup {[result |-> "Timeout", wait |-> "timeout", process_state |-> ps],
                  [result |-> "Ok", wait |-> "error", process_state |-> ps]}
    ELSE {[result |-> "Ok", wait |-> "exited", process_state |-> ps]}

\* Vm::shutdown, from its entry to the loop
shutdown ==
    /\ pc = "idle"
    /\ LET st == state(process_state, is_paused) IN
       IF ~ensure_paused_or_running(st) THEN StateCheckError("shutdown", "Vm", st)
       ELSE \E shutdown_methods \in MethodLists :
            /\ pc' = "shutdown_method"
            /\ sd' = [methods |-> shutdown_methods, k |-> 1, last_result |-> "Ok",
                      attempts |-> <<>>]
            /\ UNCHANGED <<process_state, is_paused, configuration, standard_paths,
                           snapshot_traces, executor, snapshot, invocation, ep, ph, spawned, fs>>
            /\ Record("shutdown", "Vm", st, "pending", None, <<>>)

\* Vm::shutdown, the head of the loop and the match on the next method; after the
\* loop, the return of last_result
shutdown_method ==
    /\ pc = "shutdown_method"
    /\ UNCHANGED <<process_state, is_paused, configuration, standard_paths,
                   snapshot_traces, executor, snapshot, invocation, ep, ph, spawned, fs>>
    /\ IF sd.k > Len(sd.methods)
       THEN /\ pc' = "idle"
            /\ UNCHANGED sd
            /\ Progress(sd.last_result, <<>>)
       ELSE \E arm \in shutdown_arm(sd.methods[sd.k], process_state) :
            /\ sd' = [sd EXCEPT !.last_result = arm.result,
                                !.k = IF arm.result = "Ok" THEN @ ELSE @ + 1,
                                !.attempts = Append(@, [k |-> sd.k,
                                                        method |-> sd.methods[sd.k],
                                                        ok |-> arm.result = "Ok",
                                                        effects |-> arm.effects,
                                                        wait |-> "none"])]
            /\ pc' = IF arm.returns THEN "idle"
                     ELSE IF arm.result = "Ok" THEN "shutdown_wait"
                     ELSE "shutdown_method"
            /\ Progress(IF arm.returns THEN arm.result ELSE "pending", arm.effects)

\* the exit wait of Vm::shutdown with the loop going on to the next method whatever
\* the wait returned
shutdown_wait_no_break ==
    /\ pc = "shutdown_wait"
    /\ \E w \in shutdown_waits(process_state) :
        /\ process_state' = w.process_state
        /\ sd' = [sd EXCEPT !.last_result = w.result,
                            !.k = @ + 1,
                            !.attempts[Len(sd.attempts)].wait = w.wait]
        /\ pc' = "shutdown_method"
        /\ UNCHANGED <<is_paused, configuration, standard_paths, snapshot_traces,
                       executor, snapshot, invocation, ep, ph, spawned, fs>>
        /\ Progress("pending", <<WaitForExit>>)

\* Vm::shutdown, the exit wait after a method that succeeded, and the break
shutdown_wait ==
    /\ pc = "shutdown_wait"
    /\ \E w \in shutdown_waits(process_state) :
        /\ process_state' = w.process_state
        /\ sd' = [sd EXCEPT !.last_result = w.result,
                            !.k = IF w.result = "Ok" THEN @ ELSE @ + 1,
                            !.attempts[Len(sd.attempts)].wait = w.wait]
        /\ pc' = IF w.result = "Ok" THEN "idle" ELSE "shutdown_method"
        /\ UNCHANGED <<is_paused, configuration, standard_paths, snapshot_traces,
                       executor, snapshot, invocation, ep, ph, spawned, fs>>
        /\ Progress(IF w.result = "Ok" THEN "Ok" ELSE "pending", <<WaitForExit>>)

-----------------------------------------------------------------------------
(* Vm::cleanup *)

VmCleanupOptions == [remove_logs : BOOLEAN, remove_metrics : BOOLEAN, remove_vsock : BOOLEAN]

IsPrefix(p, q) == Len(p) <= Len(q) /\ SubSeq(q, 1, Len(p)) = p

\* Path::parent of a path that has one
Parent(p) == SubSeq(p, 1, Len(p) - 1)

\* JailedVmmExecutor::cleanup removing nothing
jailed_cleanup_keeps(jail_path, files) == [result |-> "Ok", fs |-> files]

\* JailedVmmExecutor::cleanup: a jail path without a parent ("/") is an error;
\* otherwise the parent directory of the jail is removed with all it holds
jailed_cleanup(jail_path, files) ==
    IF jail_path = <<>>
    THEN [result |-> "ExpectedDirectoryParentMissing", fs |-> files]
    ELSE [result |-> "Ok", fs |-> {f \in files : ~IsPrefix(Parent(jail_path), f)}]

\* the files left by the executor's cleanup
executor_cleanup(ex, files) ==
    IF ex = "jailed" THEN jailed_cleanup(JailPath, files).fs ELSE files

\* the paths of Vm::cleanup with the sockets removed before the log and metrics files
cleanup_targets_sockets_first(paths, cleanup_options) ==
    (IF IsSome(paths.vsock_multiplexer_path) /\ cleanup_options.remove_vsock
     THEN paths.vsock_multiplexer_path \o paths.vsock_listener_paths ELSE <<>>)
        \o (IF IsSome(paths.log_path) /\ cleanup_options.remove_logs
            THEN paths.log_path ELSE <<>>)
        \o (IF IsSome(paths.metrics_path) /\ cleanup_options.remove_metrics
            THEN paths.metrics_path ELSE <<>>)

\* the paths Vm::cleanup removes, in the order of its remove_file calls
cleanup_targets(paths, cleanup_options) ==
    (IF IsSome(paths.log_path) /\ cleanup_options.remove_logs
     THEN paths.log_path ELSE <<>>)
        \o (IF IsSome(paths.metrics_path) /\ cleanup_options.remove_metrics
            THEN paths.metrics_path ELSE <<>>)
        \o (IF IsSome(paths.vsock_multiplexer_path) /\ cleanup_options.remove_vsock
            THEN paths.vsock_multiplexer_path \o paths.vsock_listener_paths ELSE <<>>)

\* remove_file on each target in turn, each with map_err(IoError)?: the first target
\* that does not exist ends the call
RECURSIVE remove_files(_, _, _)
remove_files(targets, files, effects) ==
    IF targets = <<>> THEN [result |-> "Ok", fs |-> files, effects |-> effects]
    ELSE IF Head(targets) \notin files
    THEN [result |-> "IoError", fs |-> files,
          effects |-> Append(effects, RemoveFile(Head(targets)))]
    ELSE remove_files(Tail(targets), files \ {Head(targets)},
                      Append(effects, RemoveFile(Head(targets))))

\* Vm::cleanup
cleanup ==
    /\ pc = "idle"
    /\ LET st == state(process_state, is_paused) IN
       IF ~ensure_exited_or_crashed(st)
       THEN Return("cleanup", "Vm", st, "ExpectedExitedOrCrashed", None, <<>>,
                   is_paused, snapshot_traces)
       ELSE \E cleanup_options \in VmCleanupOptions,
               executor_result \in {"Ok", "ProcessError"} :
            LET removed ==
                    IF executor_result # "Ok"
                    THEN [result |-> executor_result, fs |-> fs,
                          effects |-> <<ExecutorCleanup>>]
                    ELSE remove_files(cleanup_targets(standard_paths, cleanup_options),
                                      executor_cleanup(executor, fs),
                                      <<ExecutorCleanup>>)
            IN  /\ fs' = removed.fs
                /\ sd' = NoShutdown
                /\ UNCHANGED <<process_state, is_paused, configuration, standard_paths,
                               snapshot_traces, executor, snapshot, invocation, ep, ph, spawned, pc>>
                /\ RecordOf("cleanup", "Vm", Some(cleanup_options), st, removed.result,
                            None, removed.effects)

-----------------------------------------------------------------------------
(* VsockExt::vsock_listen (ext/vsock_http.rs) *)

HostPorts == {"1", "2"}

\* a directory exists where something exists beneath it
IsDirectory(p, files) == p = <<>> \/ \E f \in files : f # p /\ IsPrefix(p, f)

\* UnixListener::bind: the socket file is created where no file is in the way and
\* the parent is a directory
bind(socket_path, files) ==
    IF socket_path \notin files /\ Parent(socket_path) \notin files
            /\ IsDirectory(Parent(socket_path), files)
    THEN [result |-> "Ok", fs |-> files \cup {socket_path}]
    ELSE [result |-> "CannotBind", fs |-> files]

\* PathBuf::push(format!("_{host_port}")): one more component
listener_path(multiplexer_path, host_port) == Append(multiplexer_path, "_" \o host_port)

\* VsockExt::vsock_listen
vsock_listen ==
    /\ pc = "idle"
    /\ Len(standard_paths.vsock_listener_paths) < MaxListeners
    /\ LET st == state(process_state, is_paused) IN
       IF standard_paths.vsock_multiplexer_path = None
       THEN Return("vsock_listen", "VsockExt", st, "VsockNotConfigured", None, <<>>,
                   is_paused, snapshot_traces)
       ELSE \E host_port \in HostPorts :
            LET socket_path == listener_path(standard_paths.vsock_multiplexer_path[1],
                                             host_port)
                bound == bind(socket_path, fs)
            IN  /\ standard_paths' =
                        [standard_paths EXCEPT !.vsock_listener_paths = Append(@, socket_path)]
                /\ fs' = bound.fs
                /\ sd' = NoShutdown
                /\ UNCHANGED <<process_state, is_paused, configuration, snapshot_traces,
                               executor, snapshot, invocation, ep, ph, spawned, pc>>
                /\ RecordOf("vsock_listen", "VsockExt", Some(host_port), st, bound.result,
                            None, <<Bind(socket_path)>>)

-----------------------------------------------------------------------------
(* The executor's prepare (vmm/executor/jailed.rs, unrestricted.rs) as      *)
(* Vm::prepare_arced calls it.  A directory the executor creates is kept in *)
(* fs under its own path.  The filesystem refuses only what is impossible:  *)
(* reading a path that does not exist, hard-linking onto an existing path.  *)

\* VmmApiSocket::Enabled(socket_path), an inner path
SocketInner == <<"run", "fc.sock">>

\* the resources a host holds and the outer paths a caller names; <<>> is "/"
OuterResources == {<<"opt", "vmlinux">>, <<"opt", "rootfs">>, <<"alt", "rootfs">>}
OuterPaths == OuterResources \cup {<<>>, <<"opt", "..">>}

JailMoveMethods == {"Copy", "HardLink", "HardLinkWithCopyFallback"}

\* Path::file_name: the last component, unless the path is "/" or ends in ".."
file_name(path) ==
    IF path = <<>> \/ path[Len(path)] = ".." THEN None ELSE Some(path[Len(path)])

\* a renamer that keeps the parent directories of the outer path
rename_for_jail_keeps_parents(outside_path) ==
    IF file_name(outside_path) = None
    THEN [result |-> "PathHasNoFilename", path |-> <<>>]
    ELSE [result |-> "Ok", path |-> <<"/">> \o outside_path]

\* FlatJailRenamer::rename_for_jail: "/" and the file name, if the path has one
rename_for_jail(outside_path) ==
    IF file_name(outside_path) = None
    THEN [result |-> "PathHasNoFilename", path |-> <<>>]
    ELSE [result |-> "Ok", path |-> <<"/">> \o file_name(outside_path)]

\* the executor's prepare was called
ExecutorPrepare == <<"executor", "prepare", "">>

\* VmmExecutor::get_socket_path with no regard to the socket being disabled
get_socket_path_enabled(ex, e) == Some(inner_to_outer_path(ex, SocketInner))

\* VmmExecutor::get_socket_path: None where the API socket is disabled
get_socket_path(ex, e) ==
    IF e.api_socket THEN Some(inner_to_outer_path(ex, SocketInner)) ELSE None

\* a staging task as the join set holds it
Task(kind, source, target) ==
    [kind |-> kind, source |-> source, target |-> target, status |-> "running"]

\* the executor, its arguments and one call of prepare
Staging(api_socket, log_path, metrics_path, jail_move_method, outer_paths) ==
    [api_socket |-> api_socket, log_path |-> log_path, metrics_path |-> metrics_path,
     jail_move_method |-> jail_move_method, outer_paths |-> outer_paths,
     phase |-> "new", called |-> FALSE, tasks |-> <<>>, joined |-> {},
     path_mappings |-> <<>>, downgraded |-> FALSE, result |-> "", late |-> {}]

\* the executor once Vm::prepare_arced has returned the VM
Prepared(ex, cfg) ==
    [Staging(TRUE, FALSE, FALSE, "Copy", <<>>)
        EXCEPT !.phase = "returned", !.called = TRUE, !.result = "Ok"]

\* the number of leading outer paths the jail renamer accepts
Renamed(outer_paths) ==
    LET bad == {i \in 1..Len(outer_paths) : rename_for_jail(outer_paths[i]).result # "Ok"}
    IN  IF bad = {} THEN Len(outer_paths)
        ELSE (CHOOSE i \in bad : \A j \in bad : i <= j) - 1

\* the HashMap of a prepare that keeps the mapping of the first outer path only
jailed_path_mappings_first_only(outer_paths, n) ==
    [o \in {outer_paths[i] : i \in 1..(IF n > 0 THEN 1 ELSE 0)} |-> rename_for_jail(o).path]

\* the HashMap the jailed prepare fills: insert replaces the value of a key it holds
jailed_path_mappings(outer_paths, n) ==
    [o \in {outer_paths[i] : i \in 1..n} |-> rename_for_jail(o).path]

\* the HashMap the unrestricted prepare collects: every path mapped to itself
unrestricted_path_mappings(outer_paths) ==
    [o \in {outer_paths[i] : i \in 1..Len(outer_paths)} |-> o]

\* JailedVmmExecutor::prepare, the tasks it spawns: the socket's parent directory,
\* the log and metrics files, and one transfer per renamed outer path
jailed_tasks(e, n) ==
    (IF e.api_socket
     THEN <<Task("create_dir_all", <<>>, jail_join(JailPath, Parent(SocketInner)))>>
     ELSE <<>>)
        \o (IF e.log_path
            THEN <<Task("create_file", <<>>, jail_join(JailPath, LogInner))>> ELSE <<>>)
        \o (IF e.metrics_path
            THEN <<Task("create_file", <<>>, jail_join(JailPath, MetricsInner))>> ELSE <<>>)
        \o [i \in 1..n |->
                Task(e.jail_move_method, e.outer_paths[i],
                     jail_join(JailPath, rename_for_jail(e.outer_paths[i]).path))]

\* UnrestrictedVmmExecutor::prepare, the tasks it spawns: one check per outer path,
\* the removal of a socket left behind, and the log and metrics files
unrestricted_tasks(e) ==
    [i \in 1..Len(e.outer_paths) |-> Task("check_exists", e.outer_paths[i], <<>>)]
        \o (IF e.api_socket THEN <<Task("remove_file", <<>>, SocketInner)>> ELSE <<>>)
        \o (IF e.log_path THEN <<Task("create_file", <<>>, LogInner)>> ELSE <<>>)
        \o (IF e.metrics_path THEN <<Task("create_file", <<>>, MetricsInner)>> ELSE <<>>)

\* what a staging task does to the files when it runs to its end
run_task(t, files) ==
    CASE t.kind \in {"create_dir_all", "create_file"} ->
            [result |-> "Ok", fs |-> files \cup {t.target}]
      [] t.kind = "remove_file" ->
            [result |-> "Ok", fs |-> files \ {t.target}]
      [] t.kind = "check_exists" ->
            [result |-> IF t.source \in files THEN "Ok" ELSE "ExpectedResourceMissing",
             fs |-> files]
      [] t.source \notin files ->
            [result |-> "ExpectedResourceMissing", fs |-> files]
      [] t.kind = "HardLink" /\ t.target \in files ->
            [result |-> "FilesystemError", fs |-> files]
      [] OTHER ->
            [result |-> "Ok", fs |-> files \cup {t.target}]

\* Vm::prepare_arced after the executor's prepare returned its mappings: every
\* enumerated path is removed from the map, then the standard paths are prepared
rewrite_paths(outer_paths, path_mappings) ==
    IF \A i \in 1..Len(outer_paths) :
            /\ outer_paths[i] \in DOMAIN path_mappings
            /\ \A j \in 1..(i - 1) : outer_paths[j] # outer_paths[i]
    THEN "Ok" ELSE "MissingPathMapping"

\* Vm::prepare_arced returns: with its own error where it has not called the
\* executor's prepare, with ProcessError where that failed, or with the VM
prepare_returns(e, result, files) ==
    LET cfg == CHOOSE c \in Configurations : TRUE
        vm_result == IF ~e.called THEN result
                     ELSE IF result # "Ok" THEN "ProcessError"
                     ELSE rewrite_paths(e.outer_paths, e.path_mappings)
    IN  /\ ep' = [e EXCEPT !.phase = "returned", !.result = result]
        /\ IF vm_result = "Ok"
           THEN /\ process_state' = Proc("AwaitingStart")
                /\ configuration' = Some(cfg)
                /\ standard_paths' = accessible_paths(executor, cfg)
                /\ fs' = files \cup prepared_files(executor, cfg)
           ELSE /\ fs' = files
                /\ UNCHANGED <<process_state, configuration, standard_paths>>
        /\ UNCHANGED <<is_paused, snapshot_traces, executor, snapshot, invocation, ph, spawned, pc, sd>>
        /\ RecordOf("prepare", "Vm", Some(e.outer_paths), NotStarted, vm_result, None,
                    IF e.called THEN <<ExecutorPrepare>> ELSE <<>>)

\* Vm::prepare_arced up to the first point where it waits for the staging tasks: the
\* socket check, the outer paths, and the executor's prepare creating the jail and
\* spawning its tasks
prepare_arced ==
    /\ ep.phase = "new"
    /\ IF get_socket_path(executor, ep) = None
       THEN prepare_returns(ep, "DisabledApiSocketIsUnsupported", fs)
       ELSE IF executor = "jailed"
       THEN LET n == Renamed(ep.outer_paths)
                jail == (fs \ {f \in fs : IsPrefix(JailPath, f)}) \cup {JailPath}
                e == [ep EXCEPT !.called = TRUE, !.tasks = jailed_tasks(ep, n),
                                !.path_mappings = jailed_path_mappings(ep.outer_paths, n)]
            IN  IF n < Len(ep.outer_paths)
                THEN prepare_returns(e, "JailRenamerFailed", jail)
                ELSE /\ ep' = [e EXCEPT !.phase = "waiting"]
                     /\ fs' = jail
                     /\ UNCHANGED <<process_state, is_paused, configuration, standard_paths,
                                    snapshot_traces, executor, snapshot, invocation, ph, spawned, pc, sd, call>>
       ELSE /\ ep' = [ep EXCEPT !.called = TRUE, !.phase = "waiting",
                                !.tasks = unrestricted_tasks(ep)]
            /\ UNCHANGED <<process_state, is_paused, configuration, standard_paths,
                           snapshot_traces, executor, snapshot, invocation, ph, spawned, fs, pc, sd, call>>

\* a spawned staging task runs to its end; one whose handle was dropped is detached
\* and runs on after prepare has returned
staging_task ==
    \E i \in DOMAIN ep.tasks :
        LET r == run_task(ep.tasks[i], fs)
        IN  /\ ep.tasks[i].status = "running"
            /\ fs' = r.fs
            /\ ep' = [ep EXCEPT !.tasks[i].status = r.result,
                                !.late = IF ep.phase = "returned" /\ r.fs # fs
                                         THEN @ \cup {i} ELSE @]
            /\ UNCHANGED <<process_state, is_paused, configuration, standard_paths,
                           snapshot_traces, executor, snapshot, invocation, ph, spawned, pc, sd, call>>

\* RuntimeJoinSet::wait (runtime/mod.rs) returning the error of task i: the tasks
\* after it are dropped, and a dropped task is detached
RuntimeJoinSet_wait(tasks, i) == tasks

\* a join set whose wait returns Ok as soon as one task has been joined
wait_is_over_after_first(tasks, joined) == joined # {} \/ tasks = <<>>

\* RuntimeJoinSet::wait has left its loop over the tasks: every task has been joined
wait_is_over(tasks, joined) == Cardinality(joined) >= Len(tasks)

\* JailedVmmExecutor::prepare from join_set.wait() on: the tasks are joined in the
\* order they were spawned, the first error is returned, and after the last task
\* the ownership of the jail is downgraded and the mappings are returned
jailed_prepare_wait ==
    /\ executor = "jailed"
    /\ ep.phase = "waiting"
    /\ LET i == Cardinality(ep.joined) + 1
       IN  IF wait_is_over(ep.tasks, ep.joined)
           THEN \E owner \in {"Ok", "ChangeOwnerError"} :
                    prepare_returns([ep EXCEPT !.downgraded = TRUE], owner, fs)
           ELSE /\ ep.tasks[i].status # "running"
                /\ IF ep.tasks[i].status = "Ok"
                   THEN /\ ep' = [ep EXCEPT !.joined = @ \cup {i}]
                        /\ UNCHANGED <<process_state, is_paused, configuration,
                                       standard_paths, snapshot_traces, executor, snapshot, invocation, ph,
                                       spawned, fs, pc, sd, call>>
                   ELSE prepare_returns(
                            [ep EXCEPT !.joined = @ \cup {i},
                                       !.tasks = RuntimeJoinSet_wait(ep.tasks, i)],
                            ep.tasks[i].status, fs)

\* join_on_set (vmm/executor/mod.rs) returning the error of a task: abort_all
join_on_set(tasks) ==
    [j \in DOMAIN tasks |->
        IF tasks[j].status = "running" THEN [tasks[j] EXCEPT !.status = "cancelled"]
        ELSE tasks[j]]

\* UnrestrictedVmmExecutor::prepare from join_on_set on: the tasks are joined as
\* they finish, the first error aborts the others and is returned, and after the
\* last task every outer path is returned mapped to itself
unrestricted_prepare_wait ==
    /\ executor = "unrestricted"
    /\ ep.phase = "waiting"
    /\ IF ep.joined = DOMAIN ep.tasks
       THEN prepare_returns(
                [ep EXCEPT !.path_mappings = unrestricted_path_mappings(ep.outer_paths)],
                "Ok", fs)
       ELSE \E i \in DOMAIN ep.tasks \ ep.joined :
                /\ ep.tasks[i].status # "running"
                /\ IF ep.tasks[i].status = "Ok"
                   THEN /\ ep' = [ep EXCEPT !.joined = @ \cup {i}]
                        /\ UNCHANGED <<process_state, is_paused, configuration,
                                       standard_paths, snapshot_traces, executor, snapshot, invocation, ph,
                                       spawned, fs, pc, sd, call>>
                   ELSE prepare_returns(
                            [ep EXCEPT !.joined = @ \cup {i},
                                       !.tasks = join_on_set(ep.tasks)],
                            ep.tasks[i].status, fs)

-----------------------------------------------------------------------------
(* ProcessHandle (vmm/executor/process_handle.rs) *)

\* no process has been invoked
NoHandle == [kind |-> "None"]

\* what a call on the handle returned and did, and what earlier calls had returned
\* when it was made: the status of the first wait and whether the exit was observed
HandleCall(op, result, value, signal, h) ==
    [op |-> op, result |-> result, value |-> value, signal |-> signal,
     waited |-> h.waited, observed |-> h.observed]

\* ProcessHandle::attached and ProcessHandle::detached: the handle of a running
\* process.  child is the exit status the attached Child has reaped; exited_rx and
\* exited are the one-shot receiver and the memo of the detached handle.
Handle(kind) ==
    [kind |-> kind, proc |-> "running", status |-> 0,
     child |-> None, watcher |-> IF kind = "Detached" THEN "watching" ELSE "none",
     exited_rx |-> "empty", exited |-> None,
     waited |-> None, observed |-> FALSE,
     last |-> [op |-> "new", result |-> "Ok", value |-> None, signal |-> FALSE,
               waited |-> None, observed |-> FALSE]]

\* the process exits with a status of its own
process_exits ==
    /\ ph.kind # "None" /\ ph.proc = "running"
    /\ \E s \in ExitStatuses : ph' = [ph EXCEPT !.proc = "exited", !.status = s]
    /\ UNCHANGED <<process_state, is_paused, configuration, standard_paths,
                   snapshot_traces, executor, snapshot, invocation, ep, spawned, fs, pc, sd, call>>

\* the task ProcessHandle::detached spawns: once the pidfd is readable it sends ()
\* through the channel; if waiting for readability fails the sender is dropped
watcher ==
    /\ ph.kind = "Detached" /\ ph.watcher = "watching"
    /\ \/ /\ ph.proc = "exited"
          /\ ph' = [ph EXCEPT !.watcher = "sent", !.exited_rx = "value"]
       \/ ph' = [ph EXCEPT !.watcher = "dropped", !.exited_rx = "closed"]
    /\ UNCHANGED <<process_state, is_paused, configuration, standard_paths,
                   snapshot_traces, executor, snapshot, invocation, ep, spawned, fs, pc, sd, call>>

\* a call on the handle returns
HandleReturns(h, op, result, value, signal) ==
    /\ ph' = [h EXCEPT !.last = HandleCall(op, result, value, signal, ph),
                       !.waited = IF op = "wait" /\ ph.waited = None THEN value ELSE @,
                       !.observed = @ \/ (op # "send_sigkill" /\ value # None)]
    /\ UNCHANGED <<process_state, is_paused, configuration, standard_paths,
                   snapshot_traces, executor, snapshot, invocation, ep, spawned, fs, pc, sd, call>>

\* ProcessHandle::wait.  Attached: Child::wait returns the status it has reaped or
\* reaps the exited child.  Detached: the memo, or status 0 once the receiver
\* completes, with a value or without
ProcessHandle_wait ==
    IF ph.kind = "Attached"
    THEN /\ ph.proc = "exited"
         /\ LET s == IF ph.child # None THEN ph.child[1] ELSE ph.status
            IN  HandleReturns([ph EXCEPT !.child = Some(s)], "wait", "Ok", Some(s), FALSE)
    ELSE /\ ph.kind = "Detached"
         /\ IF ph.exited # None
            THEN HandleReturns(ph, "wait", "Ok", ph.exited, FALSE)
            ELSE /\ ph.exited_rx \in {"value", "closed"}
                 /\ HandleReturns([ph EXCEPT !.exited = Some(0), !.exited_rx = "taken"],
                                  "wait", "Ok", Some(0), FALSE)

\* ProcessHandle::try_wait.  Attached: Child::try_wait.  Detached: the memo, or
\* status 0 if try_recv yields the value, or None
ProcessHandle_try_wait ==
    IF ph.kind = "Attached"
    THEN IF ph.child # None
         THEN HandleReturns(ph, "try_wait", "Ok", ph.child, FALSE)
         ELSE IF ph.proc = "exited"
         THEN HandleReturns([ph EXCEPT !.child = Some(ph.status)], "try_wait", "Ok",
                            Some(ph.status), FALSE)
         ELSE HandleReturns(ph, "try_wait", "Ok", None, FALSE)
    ELSE /\ ph.kind = "Detached"
         /\ IF ph.exited # None
            THEN HandleReturns(ph, "try_wait", "Ok", ph.exited, FALSE)
            ELSE IF ph.exited_rx = "value"
            THEN HandleReturns([ph EXCEPT !.exited = Some(0), !.exited_rx = "taken"],
                               "try_wait", "Ok", Some(0), FALSE)
            ELSE HandleReturns(ph, "try_wait", "Ok", None, FALSE)

\* send_sigkill with no regard to an exit already observed
send_sigkill_unchecked(h) == [result |-> "Ok", signal |-> TRUE]

\* ProcessHandle::send_sigkill.  Attached: Child::start_kill refuses a child whose
\* status it has reaped.  Detached: an error if the memo is set, else the signal is
\* sent through the pidfd
send_sigkill(h) ==
    IF (h.kind = "Attached" /\ h.child # None) \/ (h.kind = "Detached" /\ h.exited # None)
    THEN [result |-> "Err", signal |-> FALSE]
    ELSE [result |-> "Ok", signal |-> TRUE]

ProcessHandle_send_sigkill ==
    /\ ph.kind # "None"
    /\ LET r == send_sigkill(ph)
       IN  HandleReturns(ph, "send_sigkill", r.result, None, r.signal)

-----------------------------------------------------------------------------
(* VmmId (vmm/executor/unrestricted.rs).  A string is the sequence of its   *)
(* characters; its len() is the number of bytes of its UTF-8 encoding.      *)

\* the characters an identifier is tried with, "e'" standing for a two-byte letter
Chars == {"a", "Z", "7", "-", "_", "e'"}

\* char::len_utf8
len_utf8(c) == IF c = "e'" THEN 2 ELSE 1

\* String::len
RECURSIVE len(_)
len(id) == IF id = <<>> THEN 0 ELSE len_utf8(Head(id)) + len(Tail(id))

\* char::is_ascii_alphanumeric
is_ascii_alphanumeric(c) == c \in {"a", "Z", "7"}

\* VmmId::new with the characters checked before the length
VmmId_new_characters_first(id) ==
    IF \E i \in DOMAIN id : ~is_ascii_alphanumeric(id[i]) /\ id[i] # "-"
    THEN "ContainsInvalidCharacter"
    ELSE IF len(id) < 5 THEN "TooShort"
    ELSE IF len(id) > 60 THEN "TooLong"
    ELSE "Ok"

\* VmmId::new
VmmId_new(id) ==
    IF len(id) < 5 THEN "TooShort"
    ELSE IF len(id) > 60 THEN "TooLong"
    ELSE IF \E i \in DOMAIN id : ~is_ascii_alphanumeric(id[i]) /\ id[i] # "-"
    THEN "ContainsInvalidCharacter"
    ELSE "Ok"

\* the strings tried: n times one character, with one place holding another
Ids ==
    {[i \in 1..n |-> IF i = k THEN d ELSE c] :
        n \in 0..MaxIdLen, k \in 0..MaxIdLen, c \in Chars, d \in Chars}

\* a caller passes the string it holds to VmmId::new
new_vmm_id ==
    /\ call.op = "id"
    /\ call' = [call EXCEPT !.op = "VmmId::new", !.result = VmmId_new(call.input[1])]
    /\ UNCHANGED <<process_state, is_paused, configuration, standard_paths,
                   snapshot_traces, executor, snapshot, invocation, ep, ph, spawned, fs, pc, sd>>

-----------------------------------------------------------------------------
(* SnapshotData (vm/snapshot.rs) *)

\* where a created snapshot and its memory file lie, and where a caller sends them
SnapshotFile == <<"snap", "vm.snap">>
MemFile == <<"snap", "vm.mem">>
NewSnapshotPaths == {<<"out", "vm.snap">>, <<"bak", "vm.snap">>}
NewMemFilePaths == {<<"out", "vm.mem">>, <<"bak", "vm.mem">>}

\* SnapshotData { snapshot_path, mem_file_path, .. }
SnapshotData(snapshot_path, mem_file_path) ==
    [snapshot_path |-> snapshot_path, mem_file_path |-> mem_file_path]

\* how FsBackend::copy or FsBackend::rename_file of source can end: it fails when the
\* source is missing, and may fail for a reason of the host
fs_outcomes(source, files) == IF source \in files THEN {"Ok", "Err"} ELSE {"Err"}

\* the files after FsBackend::copy or FsBackend::rename_file ended with outcome
fs_operation(kind, source, destination, outcome, files) ==
    IF outcome # "Ok" THEN files
    ELSE IF kind = "copy" THEN files \cup {destination}
    ELSE (files \ {source}) \cup {destination}

\* tokio::try_join! of two operations: both run to their end, or the first error
\* returns and drops the other operation before it took effect
try_join(a, b, files) ==
    {o \in (fs_outcomes(a, files) \cup {"Dropped"}) \X (fs_outcomes(b, files) \cup {"Dropped"}) :
        /\ o[1] = "Dropped" => o[2] = "Err"
        /\ o[2] = "Dropped" => o[1] = "Err"}

\* SnapshotData::copy / move_out recording the new paths whatever try_join! returned
transfer_returns_eager(data, o, new_snapshot_path, new_mem_file_path) ==
    [result |-> IF o = <<"Ok", "Ok">> THEN "Ok" ELSE "FsBackendError",
     data |-> SnapshotData(new_snapshot_path, new_mem_file_path)]

\* SnapshotData::copy / move_out after try_join!: `?` returns the error before the
\* two assignments
transfer_returns(data, o, new_snapshot_path, new_mem_file_path) ==
    IF o = <<"Ok", "Ok">>
    THEN [result |-> "Ok", data |-> SnapshotData(new_snapshot_path, new_mem_file_path)]
    ELSE [result |-> "FsBackendError", data |-> data]

\* SnapshotData::copy (kind "copy") and SnapshotData::move_out (kind "rename_file")
transfer(op, kind) ==
    /\ IsSome(snapshot)
    /\ \E new_snapshot_path \in NewSnapshotPaths, new_mem_file_path \in NewMemFilePaths :
         \E o \in try_join(snapshot[1].snapshot_path, snapshot[1].mem_file_path, fs) :
            LET data == snapshot[1]
                r == transfer_returns(data, o, new_snapshot_path, new_mem_file_path)
            IN  /\ fs' = fs_operation(kind, data.mem_file_path, new_mem_file_path, o[2],
                             fs_operation(kind, data.snapshot_path, new_snapshot_path,
                                          o[1], fs))
                /\ snapshot' = Some(r.data)
                /\ UNCHANGED <<process_state, is_paused, configuration, standard_paths,
                               snapshot_traces, executor, invocation, ep, ph, spawned,
                               pc, sd>>
                /\ RecordOf(op, "SnapshotData",
                            Some([self |-> data, new_snapshot_path |-> new_snapshot_path,
                                  new_mem_file_path |-> new_mem_file_path]),
                            NotStarted, r.result, Some(o), <<>>)

SnapshotData_copy == transfer("copy", "copy")

SnapshotData_move_out == transfer("move_out", "rename_file")

-----------------------------------------------------------------------------
(* JailedVmmExecutor::invoke (vmm/executor/jailed.rs) and the jailer it     *)
(* spawns.  The text of the PID file is a sequence of characters.           *)

\* the PIDs the jailer can give the VMM
VmmPids == {7, 42}

DigitChars == <<"0", "1", "2", "3", "4", "5", "6", "7", "8", "9">>

\* the decimal text of a PID below 100, as the jailer writes it
to_string(pid) ==
    IF pid < 10 THEN <<DigitChars[pid + 1]>>
    ELSE <<DigitChars[(pid \div 10) + 1], DigitChars[(pid % 10) + 1]>>

\* str::trim_end
RECURSIVE trim_end(_)
trim_end(text) ==
    IF text # <<>> /\ text[Len(text)] \in {" ", "\n"}
    THEN trim_end(SubSeq(text, 1, Len(text) - 1))
    ELSE text

\* str::parse::<i32> of an unsigned text: <<n>>, or <<>> for a ParseIntError
RECURSIVE parse(_)
parse(text) ==
    IF text = <<>> THEN None
    ELSE LET last == text[Len(text)]
             init == SubSeq(text, 1, Len(text) - 1)
         IN  IF \A d \in DOMAIN DigitChars : DigitChars[d] # last THEN None
             ELSE LET value == (CHOOSE d \in DOMAIN DigitChars : DigitChars[d] = last) - 1
                  IN  IF init = <<>> THEN Some(value)
                      ELSE IF parse(init) = None THEN None
                      ELSE Some(10 * parse(init)[1] + value)

\* no invoke has been called
NoInvocation ==
    [phase |-> "none", daemonize |-> FALSE, exec_in_new_pid_ns |-> FALSE,
     vmm_pid |-> 0, child |-> "none", exit_status |-> 0, pid_file |-> None,
     read |-> None, retried |-> FALSE, result |-> "", handle |-> None]

\* a jailed executor with its JailerArguments, before invoke
Invocation(daemonize, exec_in_new_pid_ns, vmm_pid) ==
    [NoInvocation EXCEPT !.phase = "new", !.daemonize = daemonize,
                         !.exec_in_new_pid_ns = exec_in_new_pid_ns, !.vmm_pid = vmm_pid]

\* invoke waiting for the jailer only when both options are set
waits_for_jailer_both(daemonize, exec_in_new_pid_ns) == daemonize /\ exec_in_new_pid_ns

\* `if self.jailer_arguments.daemonize || self.jailer_arguments.exec_in_new_pid_ns`
waits_for_jailer(daemonize, exec_in_new_pid_ns) == daemonize \/ exec_in_new_pid_ns

\* invoke returns result and handle to its caller
invoke_returns(result, handle) ==
    /\ invocation' = [invocation EXCEPT !.phase = "returned", !.result = result,
                                        !.handle = handle]
    /\ UNCHANGED <<process_state, is_paused, configuration, standard_paths,
                   snapshot_traces, executor, snapshot, ep, ph, spawned, fs, pc, sd>>
    /\ RecordOf("invoke", "JailedVmmExecutor",
                Some([daemonize |-> invocation.daemonize,
                      exec_in_new_pid_ns |-> invocation.exec_in_new_pid_ns]),
                NotStarted, result, handle, <<>>)

\* invoke goes on to phase
invoke_goes_on(next) ==
    /\ invocation' = next
    /\ UNCHANGED <<process_state, is_paused, configuration, standard_paths,
                   snapshot_traces, executor, snapshot, ep, ph, spawned, fs, pc, sd, call>>

\* invoke up to its branch: the jailer is spawned; without daemonize and a new PID
\* namespace the handle of the child is returned at once
jailed_invoke ==
    /\ invocation.phase = "new"
    /\ \E spawn \in {"Ok", "ProcessSpawnFailed"} :
          IF spawn # "Ok" THEN invoke_returns(spawn, None)
          ELSE IF waits_for_jailer(invocation.daemonize, invocation.exec_in_new_pid_ns)
          THEN invoke_goes_on([invocation EXCEPT !.phase = "waiting", !.child = "running"])
          ELSE /\ invocation' = [invocation EXCEPT !.phase = "returned", !.result = "Ok",
                                     !.child = "running",
                                     !.handle = Some([kind |-> "Attached", pid |-> 0])]
               /\ UNCHANGED <<process_state, is_paused, configuration, standard_paths,
                              snapshot_traces, executor, snapshot, ep, ph, spawned, fs,
                              pc, sd>>
               /\ RecordOf("invoke", "JailedVmmExecutor",
                           Some([daemonize |-> FALSE, exec_in_new_pid_ns |-> FALSE]),
                           NotStarted, "Ok",
                           Some([kind |-> "Attached", pid |-> 0]), <<>>)

\* the jailer creates the PID file, writes the PID of the VMM into it, and exits;
\* its exit and its writing are not ordered for an observer
jailer_runs ==
    /\ invocation.child \in {"running", "exited"}
    /\ waits_for_jailer(invocation.daemonize, invocation.exec_in_new_pid_ns)
    /\ \/ /\ invocation.child = "running"
          /\ \E status \in {0, 1} :
                invoke_goes_on([invocation EXCEPT !.child = "exited",
                                                  !.exit_status = status])
       \/ /\ invocation.pid_file = None
          /\ invocation.child = "running" \/ invocation.exit_status = 0
          /\ invoke_goes_on([invocation EXCEPT !.pid_file = Some(<<>>)])
       \/ /\ invocation.pid_file = Some(<<>>)
          /\ \E end \in {<<>>, <<"\n">>} :
                invoke_goes_on([invocation EXCEPT
                                  !.pid_file = Some(to_string(invocation.vmm_pid) \o end)])

\* process.wait(), the check of the exit status, and upgrade_owner of the PID file
jailed_invoke_wait ==
    /\ invocation.phase = "waiting" /\ invocation.child = "exited"
    /\ \E waited \in {"Ok", "ProcessWaitError"}, owner \in {"Ok", "ChangeOwnerError"} :
          IF waited # "Ok" THEN invoke_returns(waited, None)
          ELSE IF invocation.exit_status # 0
          THEN invoke_returns("ProcessExitedWithIncorrectStatus", None)
          ELSE IF owner # "Ok" THEN invoke_returns(owner, None)
          ELSE invoke_goes_on([invocation EXCEPT !.phase = "reading"])

\* one turn of the loop that reads the PID file, and with_pidfd once the text parses
jailed_invoke_read ==
    /\ invocation.phase = "reading"
    /\ LET read_pid == IF invocation.pid_file = None THEN None
                       ELSE parse(trim_end(invocation.pid_file[1]))
       IN  IF read_pid = None
           THEN /\ ~invocation.retried \/ invocation.read # invocation.pid_file
                /\ invoke_goes_on([invocation EXCEPT !.retried = TRUE,
                                                     !.read = invocation.pid_file])
           ELSE \E pidfd \in {"Ok", "PidfdAllocationError"} :
                  /\ invocation' =
                        [invocation EXCEPT
                           !.phase = "returned", !.result = pidfd,
                           !.read = invocation.pid_file,
                           !.handle = IF pidfd = "Ok"
                                      THEN Some([kind |-> "Pidfd", pid |-> read_pid[1]])
                                      ELSE None]
                  /\ UNCHANGED <<process_state, is_paused, configuration, standard_paths,
                                 snapshot_traces, executor, snapshot, ep, ph, spawned,
                                 fs, pc, sd>>
                  /\ RecordOf("invoke", "JailedVmmExecutor",
                              Some([daemonize |-> invocation.daemonize,
                                    exec_in_new_pid_ns |-> invocation.exec_in_new_pid_ns]),
                              NotStarted, pidfd,
                              IF pidfd = "Ok"
                              THEN Some([kind |-> "Pidfd", pid |-> read_pid[1]])
                              ELSE None, <<>>)

-----------------------------------------------------------------------------
(* The specification *)

\* the VM as Vm::prepare_arced returns it for one of the configurations
InitFrom(configurations) ==
    \E ex \in Executors, cfg \in configurations :
        /\ process_state = Proc("AwaitingStart")
        /\ is_paused = FALSE
        /\ configuration = Some(cfg)
        /\ standard_paths = accessible_paths(ex, cfg)
        /\ snapshot_traces = <<>>
        /\ executor = ex
        /\ snapshot = None
        /\ invocation = NoInvocation
        /\ ep = Prepared(ex, cfg)
        /\ ph = NoHandle
        /\ spawned = 0
        /\ fs = prepared_files(ex, cfg)
        /\ pc = "idle"
        /\ sd = NoShutdown
        /\ call = [op |-> "prepare", impl |-> "Vm", input |-> None,
                   actual |-> NotStarted, result |-> "Ok",
                   value |-> None, effects |-> <<>>,
                   pre |-> Snapshot(Proc("AwaitingPrepare"), FALSE, <<>>, {}),
                   post |-> Snapshot(Proc("AwaitingStart"), FALSE, <<>>,
                                     prepared_files(ex, cfg))]

Init == InitFrom(Configurations)

Next ==
    \/ start
    \/ vmm_exits
    \/ shutdown
    \/ shutdown_method
    \/ shutdown_wait
    \/ cleanup
    \/ Vm_api_get_info
    \/ Vm_api_flush_metrics
    \/ Vm_api_get_balloon
    \/ Vm_api_update_balloon
    \/ Vm_api_get_balloon_statistics
    \/ Vm_api_update_balloon_statistics
    \/ Vm_api_update_drive
    \/ Vm_api_update_network_interface
    \/ Vm_api_get_machine_configuration
    \/ Vm_api_get_firecracker_version
    \/ Vm_api_create_mmds
    \/ Vm_api_update_mmds
    \/ Vm_api_get_mmds
    \/ Vm_api_create_snapshot
    \/ Vm_api_get_effective_configuration
    \/ Vm_api_pause
    \/ Vm_api_resume
    \/ Vm_api_custom_request
    \/ VmApi_api_get_info
    \/ VmApi_api_flush_metrics
    \/ VmApi_api_get_balloon_device
    \/ VmApi_api_update_balloon_device
    \/ VmApi_api_get_balloon_statistics
    \/ VmApi_api_update_balloon_statistics
    \/ VmApi_api_update_drive
    \/ VmApi_api_update_network_interface
    \/ VmApi_api_get_machine_configuration
    \/ VmApi_api_get_firecracker_version
    \/ VmApi_api_create_mmds
    \/ VmApi_api_update_mmds
    \/ VmApi_api_get_mmds
    \/ VmApi_api_create_mmds_untyped
    \/ VmApi_api_update_mmds_untyped
    \/ VmApi_api_get_mmds_untyped
    \/ VmApi_api_create_snapshot
    \/ VmApi_api_get_effective_configuration
    \/ VmApi_api_pause
    \/ VmApi_api_resume
    \/ VmApi_api_custom_request

Spec == Init /\ [][Next]_vars

\* the life of a VM from start to cleanup, with the files cleanup removes
InitCleanup == InitFrom(CleanupConfigurations)

NextCleanup ==
    \/ start
    \/ vmm_exits
    \/ vsock_listen
    \/ cleanup

SpecCleanup == InitCleanup /\ [][NextCleanup]_vars

\* the start of a VM from each configuration, by either version of the bindings
InitStart == InitFrom(StartConfigurations)

NextStart ==
    \/ start
    \/ VmApi_init

SpecStart == InitStart /\ [][NextStart]_vars

\* the sequences of one to n elements of S
NonEmptySeqs(S, n) == UNION {[1..k -> S] : k \in 1..n}

\* a host before Vm::prepare_arced: at most one of the resources is missing, the
\* caller names one to MaxOuterPaths outer paths, and no VM exists yet
InitPrepare ==
    \E ex \in Executors, api_socket \in BOOLEAN, log_path \in BOOLEAN,
       metrics_path \in BOOLEAN, jail_move_method \in JailMoveMethods,
       outer_paths \in NonEmptySeqs(OuterPaths, MaxOuterPaths),
       missing \in {{}} \cup {{r} : r \in OuterResources} :
        /\ ex = "unrestricted" => jail_move_method = "Copy"
        /\ process_state = Proc("AwaitingPrepare")
        /\ is_paused = FALSE
        /\ configuration = None
        /\ standard_paths = [log_path |-> None, metrics_path |-> None,
                             vsock_multiplexer_path |-> None,
                             vsock_listener_paths |-> <<>>]
        /\ snapshot_traces = <<>>
        /\ executor = ex
        /\ snapshot = None
        /\ invocation = NoInvocation
        /\ ep = Staging(api_socket, log_path, metrics_path, jail_move_method, outer_paths)
        /\ ph = NoHandle
        /\ spawned = 0
        /\ fs = OuterResources \ missing
        /\ pc = "idle"
        /\ sd = NoShutdown
        /\ call = [op |-> "new", impl |-> "Vm", input |-> None,
                   actual |-> NotStarted, result |-> "Ok",
                   value |-> None, effects |-> <<>>,
                   pre |-> Snapshot(Proc("AwaitingPrepare"), FALSE, <<>>, {}),
                   post |-> Snapshot(Proc("AwaitingPrepare"), FALSE, <<>>,
                                     OuterResources \ missing)]

NextPrepare ==
    \/ prepare_arced
    \/ staging_task
    \/ jailed_prepare_wait
    \/ unrestricted_prepare_wait

SpecPrepare == InitPrepare /\ [][NextPrepare]_vars

\* a handle of either kind as invoke returns it, for a VM that has been started
InitProcessHandle ==
    \E kind \in {"Attached", "Detached"}, ex \in Executors, cfg \in Configurations :
        /\ process_state = Proc("Started")
        /\ is_paused = FALSE
        /\ configuration = None
        /\ standard_paths = accessible_paths(ex, cfg)
        /\ snapshot_traces = <<>>
        /\ executor = ex
        /\ snapshot = None
        /\ invocation = NoInvocation
        /\ ep = Prepared(ex, cfg)
        /\ ph = Handle(kind)
        /\ spawned = 1
        /\ fs = prepared_files(ex, cfg)
        /\ pc = "idle"
        /\ sd = NoShutdown
        /\ call = [op |-> "start", impl |-> "Vm", input |-> Some(cfg),
                   actual |-> NotStarted, result |-> "Ok",
                   value |-> None, effects |-> <<>>,
                   pre |-> Snapshot(Proc("AwaitingStart"), FALSE, <<>>,
                                    prepared_files(ex, cfg)),
                   post |-> Snapshot(Proc("Started"), FALSE, <<>>,
                                     prepared_files(ex, cfg))]

NextProcessHandle ==
    \/ process_exits
    \/ watcher
    \/ ProcessHandle_wait
    \/ ProcessHandle_try_wait
    \/ ProcessHandle_send_sigkill

SpecProcessHandle == InitProcessHandle /\ [][NextProcessHandle]_vars

\* a caller that is about to build the identifier of an unrestricted executor
InitVmmId ==
    \E id \in Ids :
        /\ process_state = Proc("AwaitingPrepare")
        /\ is_paused = FALSE
        /\ configuration = None
        /\ standard_paths = [log_path |-> None, metrics_path |-> None,
                             vsock_multiplexer_path |-> None,
                             vsock_listener_paths |-> <<>>]
        /\ snapshot_traces = <<>>
        /\ executor = "unrestricted"
        /\ snapshot = None
        /\ invocation = NoInvocation
        /\ ep = Staging(TRUE, FALSE, FALSE, "Copy", <<>>)
        /\ ph = NoHandle
        /\ spawned = 0
        /\ fs = {}
        /\ pc = "idle"
        /\ sd = NoShutdown
        /\ call = [op |-> "id", impl |-> "VmmId", input |-> Some(id),
                   actual |-> NotStarted, result |-> "",
                   value |-> None, effects |-> <<>>,
                   pre |-> Snapshot(Proc("AwaitingPrepare"), FALSE, <<>>, {}),
                   post |-> Snapshot(Proc("AwaitingPrepare"), FALSE, <<>>, {})]

NextVmmId ==
    \/ new_vmm_id

SpecVmmId == InitVmmId /\ [][NextVmmId]_vars

\* a caller holds the SnapshotData of a created snapshot; either file may be gone
InitSnapshot ==
    \E files \in SUBSET {SnapshotFile, MemFile} :
        /\ process_state = Proc("AwaitingPrepare")
        /\ is_paused = FALSE
        /\ configuration = None
        /\ standard_paths = [log_path |-> None, metrics_path |-> None,
                             vsock_multiplexer_path |-> None,
                             vsock_listener_paths |-> <<>>]
        /\ snapshot_traces = <<>>
        /\ executor = "unrestricted"
        /\ snapshot = Some(SnapshotData(SnapshotFile, MemFile))
        /\ invocation = NoInvocation
        /\ ep = Staging(TRUE, FALSE, FALSE, "Copy", <<>>)
        /\ ph = NoHandle
        /\ spawned = 0
        /\ fs = files
        /\ pc = "idle"
        /\ sd = NoShutdown
        /\ call = [op |-> "none", impl |-> "SnapshotData", input |-> None,
                   actual |-> NotStarted, result |-> "Ok",
                   value |-> None, effects |-> <<>>,
                   pre |-> Snapshot(Proc("AwaitingPrepare"), FALSE, <<>>, files),
                   post |-> Snapshot(Proc("AwaitingPrepare"), FALSE, <<>>, files)]

NextSnapshot ==
    \/ SnapshotData_copy
    \/ SnapshotData_move_out

SpecSnapshot == InitSnapshot /\ [][NextSnapshot]_vars

\* a jailed executor whose VM has been prepared and is about to be invoked
InitInvoke ==
    \E daemonize \in BOOLEAN, exec_in_new_pid_ns \in BOOLEAN, vmm_pid \in VmmPids :
        /\ process_state = Proc("AwaitingStart")
        /\ is_paused = FALSE
        /\ configuration = None
        /\ standard_paths = [log_path |-> None, metrics_path |-> None,
                             vsock_multiplexer_path |-> None,
                             vsock_listener_paths |-> <<>>]
        /\ snapshot_traces = <<>>
        /\ executor = "jailed"
        /\ snapshot = None
        /\ invocation = Invocation(daemonize, exec_in_new_pid_ns, vmm_pid)
        /\ ep = Staging(TRUE, FALSE, FALSE, "Copy", <<>>)
        /\ ph = NoHandle
        /\ spawned = 0
        /\ fs = {JailPath}
        /\ pc = "idle"
        /\ sd = NoShutdown
        /\ call = [op |-> "none", impl |-> "JailedVmmExecutor", input |-> None,
                   actual |-> NotStarted, result |-> "Ok",
                   value |-> None, effects |-> <<>>,
                   pre |-> Snapshot(Proc("AwaitingStart"), FALSE, <<>>, {JailPath}),
                   post |-> Snapshot(Proc("AwaitingStart"), FALSE, <<>>, {JailPath})]

NextInvoke ==
    \/ jailed_invoke
    \/ jailer_runs
    \/ jailed_invoke_wait
    \/ jailed_invoke_read

SpecInvoke == InitInvoke /\ [][NextInvoke]_vars

-----------------------------------------------------------------------------
(* Properties.  The declared contract of each operation is written here    *)
(* from its documentation, independently of the operators above.           *)

\* the VM state the documentation derives from the process state and the pause flag
ReportedState(ps, paused) ==
    IF ps.tag \in {"AwaitingPrepare", "AwaitingStart"} THEN NotStarted
    ELSE IF ps.tag = "Started" /\ ~paused THEN Running
    ELSE IF ps.tag = "Started" /\ paused THEN Paused
    ELSE IF ps.tag = "Exited" THEN Exited
    ELSE Crashed(ps.status)

StateBefore == ReportedState(call.pre.process_state, call.pre.is_paused)
StateNow == ReportedState(process_state, is_paused)

ApiOperations ==
    {"api_get_info", "api_flush_metrics", "api_get_balloon", "api_update_balloon",
     "api_get_balloon_device", "api_update_balloon_device",
     "api_get_balloon_statistics", "api_update_balloon_statistics",
     "api_update_drive", "api_update_network_interface",
     "api_get_machine_configuration", "api_create_snapshot",
     "api_get_firecracker_version", "api_get_effective_configuration",
     "api_pause", "api_resume",
     "api_create_mmds", "api_update_mmds", "api_get_mmds",
     "api_create_mmds_untyped", "api_update_mmds_untyped", "api_get_mmds_untyped",
     "api_custom_request"}

GetOperations ==
    {"api_get_info", "api_get_balloon", "api_get_balloon_device",
     "api_get_balloon_statistics", "api_get_machine_configuration",
     "api_get_firecracker_version", "api_get_effective_configuration",
     "api_get_mmds", "api_get_mmds_untyped"}

\* the precondition set each API operation declares
DeclaredPrecondition(op) ==
    CASE op = "api_get_balloon_statistics" -> {Running}
      [] op = "api_create_snapshot" -> {Paused}
      [] op = "api_pause" -> {Running}
      [] op = "api_resume" -> {Paused}
      [] OTHER -> {Running, Paused}

Unchanged ==
    /\ is_paused = call.pre.is_paused
    /\ snapshot_traces = call.pre.snapshot_traces
    /\ process_state = call.pre.process_state

\* C1: an API operation invoked while the VM state is outside the operation's
\* declared precondition set returns ExpectedState, sends no request to the VMM and
\* leaves is_paused, the snapshot traces and the process state unchanged.
C1_StateCheckedFirst ==
    (call.op \in ApiOperations /\ StateBefore \notin DeclaredPrecondition(call.op))
        => /\ call.result = "ExpectedState"
           /\ call.effects = <<>>
           /\ Unchanged

\* a snapshot was requested of a Running VM through the VmApi bindings
C1_Witness ==
    /\ call.op = "api_create_snapshot" /\ call.impl = "VmApi"
    /\ StateBefore = Running
    /\ call.result = "ExpectedState"

\* C2: api_pause succeeding from Running leaves the VM Paused and api_resume
\* succeeding from Paused leaves it Running; api_pause in Paused and api_resume in
\* Running fail with the state-check error and leave the state as it was.
C2_PauseResume ==
    /\ (call.op = "api_pause" /\ StateBefore = Running /\ call.result = "Ok")
            => StateNow = Paused
    /\ (call.op = "api_resume" /\ StateBefore = Paused /\ call.result = "Ok")
            => StateNow = Running
    /\ (call.op = "api_pause" /\ StateBefore = Paused)
            => (call.result = "ExpectedState" /\ StateNow = Paused)
    /\ (call.op = "api_resume" /\ StateBefore = Running)
            => (call.result = "ExpectedState" /\ StateNow = Running)

\* the VmApi api_pause has succeeded on a Running VM
C2_Witness ==
    /\ call.op = "api_pause" /\ call.impl = "VmApi"
    /\ StateBefore = Running /\ call.result = "Ok"
    /\ StateNow = Paused

\* the ways the request of an API call fails once it has been sent
RequestFailures ==
    {"ConnectionError", "ReceivedErrorResponse", "ResponseBodyContainsUnexpectedData",
     "ResponseBodyReceiveError", "ProcessError", "ApiResponseCouldNotBeReceived",
     "ApiRespondedWithFault", "ApiResponseExpectedEmpty"}

\* C3: when the request issued by api_pause or api_resume fails (connection error,
\* non-2xx response, unexpected non-empty body), is_paused keeps the value it had
\* before the call and the reported state is unchanged.
C3_FailedCallKeepsState ==
    (call.op \in {"api_pause", "api_resume"} /\ call.result # "Ok")
        => (is_paused = call.pre.is_paused /\ StateNow = StateBefore)

\* api_resume of a Paused VM was answered with an error response
C3_Witness ==
    /\ call.op = "api_resume" /\ call.impl = "VmApi"
    /\ StateBefore = Paused
    /\ call.result \in RequestFailures
    /\ call.effects = <<Req("PATCH", "/vm")>>

\* C4: a successful GET operation, api_get_effective_configuration included, leaves
\* is_paused unchanged, so a Paused VM is still Paused after the call.
C4_ReadsKeepState ==
    (call.op \in GetOperations /\ call.result = "Ok")
        => (is_paused = call.pre.is_paused /\ StateNow = StateBefore)

\* C5: the reported VmState is the documented function of the process state and
\* is_paused; is_paused has no influence once the process has exited or crashed.
C5_StateDerivation ==
    /\ state(process_state, is_paused) = ReportedState(process_state, is_paused)
    /\ call.actual = StateBefore
    /\ process_state.tag \in {"Exited", "Crashed"}
            => state(process_state, TRUE) = state(process_state, FALSE)

\* a call was made on a VM whose process had exited while the VM was paused
C5_Witness ==
    /\ process_state.tag = "Exited" /\ is_paused
    /\ call.op \in ApiOperations
    /\ call.actual = Exited

\* what the outside world sees of one attempt: the effects of its arm, then the wait
AttemptEffects(a) == a.effects \o (IF a.wait = "none" THEN <<>> ELSE <<WaitForExit>>)

RECURSIVE AllAttemptEffects(_)
AllAttemptEffects(attempts) ==
    IF attempts = <<>> THEN <<>>
    ELSE AttemptEffects(Head(attempts)) \o AllAttemptEffects(Tail(attempts))

\* the attempt led to the VMM exiting within the timeout
LedToExit(a) == a.ok /\ a.wait = "exited"

\* C6: shutdown attempts the methods strictly in list order; method k+1 is attempted
\* only if method k failed or its exit wait timed out, and once a method has led to
\* the VMM exiting within the timeout nothing further is attempted or issued.
C6_ShutdownOrder ==
    call.op = "shutdown" =>
        /\ Len(sd.attempts) <= Len(sd.methods)
        /\ \A i \in DOMAIN sd.attempts :
              /\ sd.attempts[i].k = i
              /\ sd.attempts[i].method = sd.methods[i]
              /\ i < Len(sd.attempts)
                    => (~sd.attempts[i].ok \/ sd.attempts[i].wait = "timeout")
              /\ LedToExit(sd.attempts[i])
                    => (i = Len(sd.attempts) /\ pc = "idle" /\ call.result = "Ok")
        /\ call.effects = AllAttemptEffects(sd.attempts)

\* the first of two methods led to the exit and shutdown returned without the second
C6_Witness ==
    /\ call.op = "shutdown" /\ pc = "idle"
    /\ Len(sd.methods) = 2 /\ Len(sd.attempts) = 1
    /\ LedToExit(sd.attempts[1])
    /\ call.effects = <<Req("PUT", "/actions"), WaitForExit>>

\* C7: shutdown of a Running or Paused VM with an empty list of methods returns the
\* error NoShutdownMethodsSpecified, never Ok while the VMM is still running.
C7_EmptyListIsInvalid ==
    (/\ call.op = "shutdown" /\ pc = "idle"
     /\ StateBefore \in {Running, Paused}
     /\ sd.methods = <<>>)
        => /\ call.result = "NoShutdownMethodsSpecified"
           /\ ~(call.result = "Ok" /\ process_state.tag = "Started")

\* C8: PauseThenKill sends the pause request, then SIGKILL, then awaits the exit:
\* SIGKILL is sent between a successful pause and the exit wait.
C8_PauseThenKillKills ==
    \A i \in DOMAIN sd.attempts :
        (/\ sd.attempts[i].method = "PauseThenKill"
         /\ sd.attempts[i].ok
         /\ sd.attempts[i].wait # "none")
            => AttemptEffects(sd.attempts[i]) = <<Req("PATCH", "/vm"), Sigkill, WaitForExit>>

\* C9: a failed attempt is recoverable while more methods remain: shutdown returns an
\* error only after the last method of the list has failed, and the error is that of
\* the last attempt.
C9_FailedAttemptRecoverable ==
    (/\ call.op = "shutdown" /\ pc = "idle"
     /\ call.result \notin {"Ok", "ExpectedState"})
        => /\ Len(sd.attempts) = Len(sd.methods)
           /\ call.result = sd.last_result

\* C10: cleanup invoked in NotStarted, Running or Paused fails with
\* ExpectedExitedOrCrashed; the executor's cleanup is not run and no file is removed.
C10_CleanupPrecondition ==
    (call.op = "cleanup" /\ StateBefore \in {NotStarted, Running, Paused})
        => /\ call.result = "ExpectedExitedOrCrashed"
           /\ call.effects = <<>>
           /\ fs = call.pre.fs
           /\ Unchanged

\* cleanup was called on a Paused VM whose log and metrics files exist
C10_Witness ==
    /\ call.op = "cleanup"
    /\ StateBefore = Paused
    /\ call.result = "ExpectedExitedOrCrashed"
    /\ fs # {}

\* the steps the documentation gives for cleanup with the options opts, in order
CleanupSteps(paths, opts) ==
    LET Removal(selected, path) ==
            IF selected /\ path # None THEN <<RemoveFile(path[1])>> ELSE <<>>
        listeners == [i \in 1..Len(paths.vsock_listener_paths) |->
                        RemoveFile(paths.vsock_listener_paths[i])]
    IN  <<ExecutorCleanup>>
            \o Removal(opts.remove_logs, paths.log_path)
            \o Removal(opts.remove_metrics, paths.metrics_path)
            \o Removal(opts.remove_vsock, paths.vsock_multiplexer_path)
            \o (IF opts.remove_vsock /\ paths.vsock_multiplexer_path # None
                THEN listeners ELSE <<>>)

\* C11: cleanup runs the executor's cleanup, then removes the log and metrics files,
\* then the vsock multiplexer socket and every recorded listener socket, each only if
\* selected and configured; the first step that fails ends the call with its error
\* and nothing later is removed.
C11_CleanupOrder ==
    (call.op = "cleanup" /\ call.result # "ExpectedExitedOrCrashed") =>
        LET steps == CleanupSteps(standard_paths, call.input[1])
            done == call.effects
            removed == {done[i][2] : i \in 2..Len(done)}
        IN  /\ done # <<>>
            /\ IsPrefix(done, steps)
            /\ call.result = "Ok" => done = steps
            /\ call.result = "ProcessError" => (done = <<ExecutorCleanup>> /\ fs = call.pre.fs)
            /\ call.result # "ProcessError"
                    => fs = executor_cleanup(executor, call.pre.fs) \ removed
            /\ (call.result # "Ok" /\ Len(done) > 1)
                    => done[Len(done)][2] \notin
                            executor_cleanup(executor, call.pre.fs)
                                \ {done[i][2] : i \in 2..(Len(done) - 1)}

\* the log file, the metrics file and the multiplexer socket were removed in that
\* order, the first listener socket could not be, and the second was left alone
C11_Witness ==
    /\ call.op = "cleanup" /\ call.result = "IoError"
    /\ Len(standard_paths.vsock_listener_paths) = 2
    /\ standard_paths.log_path # None /\ standard_paths.metrics_path # None
    /\ call.effects = <<ExecutorCleanup,
                        RemoveFile(standard_paths.log_path[1]),
                        RemoveFile(standard_paths.metrics_path[1]),
                        RemoveFile(standard_paths.vsock_multiplexer_path[1]),
                        RemoveFile(standard_paths.vsock_listener_paths[1])>>
    /\ call.pre.fs # {} /\ fs = {}

\* the configuration a start was given
Started(kind) ==
    /\ call.op \in {"start", "init"}
    /\ call.input # None
    /\ call.input[1].kind = kind
    /\ call.input[1].applier = "ViaApiCalls"

NoRepeat(q) == \A i, j \in DOMAIN q : i # j => q[i] # q[j]

Put(routes) == [i \in 1..Len(routes) |-> Req("PUT", routes[i])]

\* the documented order of the requests that boot a new VM
NewBootOrder(cfg) ==
    LET IsSet(route) ==
            \/ route = "/balloon" /\ cfg.balloon
            \/ route = "/vsock" /\ cfg.vsock
            \/ route = "/logger" /\ cfg.logger
            \/ route = "/metrics" /\ cfg.metrics
            \/ route = "/mmds/config" /\ cfg.mmds_configuration
            \/ route = "/entropy" /\ cfg.entropy
        Optional == SelectSeq(<<"/balloon", "/vsock", "/logger", "/metrics",
                                "/mmds/config", "/entropy">>, IsSet)
        Drives == [i \in 1..Len(cfg.drives) |-> "/drives/" \o cfg.drives[i]]
        Nics == [i \in 1..Len(cfg.network_interfaces) |->
                    "/network-interfaces/" \o cfg.network_interfaces[i]]
    IN  Put(<<"/boot-source">> \o Drives \o <<"/machine-config">>
                \o (IF cfg.cpu_template THEN <<"/cpu-config">> ELSE <<>>)
                \o Nics \o Optional \o <<"/actions">>)

\* C12: for a New configuration booted via API calls the requests of start are, in
\* order: /boot-source, each drive, /machine-config, /cpu-config if set, each NIC,
\* then /balloon, /vsock, /logger, /metrics, /mmds/config, /entropy each if set, and
\* last /actions; no other request is sent and none twice.
C12_NewBootOrder ==
    Started("New") =>
        LET sent == Requests(call.effects)
            order == NewBootOrder(call.input[1])
        IN  /\ IsPrefix(sent, order)
            /\ NoRepeat(sent)
            /\ call.result = "Ok" => sent = order

\* a VM with two drives, a NIC and every optional device was booted by Vm::start
C12_Witness ==
    /\ Started("New") /\ call.impl = "Vm" /\ call.result = "Ok"
    /\ Len(call.input[1].drives) = 2
    /\ Len(Requests(call.effects)) = 13
    /\ process_state.tag = "Started"

\* the documented order of the requests that restore a VM from a snapshot
RestoreOrder(cfg) ==
    Put((IF cfg.logger THEN <<"/logger">> ELSE <<>>)
            \o (IF cfg.metrics THEN <<"/metrics">> ELSE <<>>)
            \o <<"/snapshot/load">>)

\* C13: for a configuration restored from a snapshot the requests of start are
\* /logger if set, /metrics if set, then /snapshot/load as the last one; no
\* boot-source, drive, machine-config or InstanceStart request is sent.
C13_RestoreOrder ==
    Started("FromSnapshot") =>
        LET sent == Requests(call.effects)
            order == RestoreOrder(call.input[1])
        IN  /\ IsPrefix(sent, order)
            /\ call.result = "Ok" => (sent = order /\ sent[Len(sent)] = Req("PUT", "/snapshot/load"))
            /\ \A i \in DOMAIN sent :
                  /\ sent[i][3] \notin {"/boot-source", "/machine-config", "/actions"}
                  /\ \A d \in DriveIds : sent[i][3] # "/drives/" \o d

\* a snapshot with a logger and metrics, and with a drive, was restored by init_restored_from_snapshot
C13_Witness ==
    /\ Started("FromSnapshot") /\ call.impl = "VmApi" /\ call.result = "Ok"
    /\ call.input[1].drives # <<>>
    /\ Len(Requests(call.effects)) = 3

\* C14: start is permitted only in NotStarted: in Running, Paused, Exited or Crashed it
\* fails with the state-check error without invoking the executor or sending a
\* request, so the VMM process is spawned at most once per VM.
C14_StartOnlyNotStarted ==
    /\ (call.op = "start" /\ StateBefore # NotStarted)
            => /\ call.result = "ExpectedState"
               /\ call.effects = <<>>
               /\ Unchanged
               /\ fs = call.pre.fs
    /\ spawned <= 1

\* start was called again on a VM that had crashed
C14_Witness ==
    /\ call.op = "start" /\ StateBefore.tag = "Crashed"
    /\ call.result = "ExpectedState"
    /\ spawned = 1

\* C15: during start no API request is sent before the API socket has been seen to
\* exist; when it does not appear in time start fails with Timeout, sends no request
\* and does not kill the VMM.
C15_SocketBeforeRequests ==
    (call.op = "start" /\ call.input # None) =>
        /\ \A i \in DOMAIN call.effects :
              IsRequest(call.effects[i])
                  => \E j \in 1..(i - 1) : call.effects[j] = SocketObserved
        /\ call.result = "Timeout"
              => /\ Requests(call.effects) = <<>>
                 /\ \A i \in DOMAIN call.effects : call.effects[i] # Sigkill
                 /\ process_state.tag = "Started"

\* the VMM was invoked and the socket did not appear in time
C15_Witness ==
    /\ call.op = "start" /\ call.result = "Timeout"
    /\ \E i \in DOMAIN call.effects : call.effects[i][1] = "invoke"
    /\ process_state.tag = "Started"

\* C16: VM prepare with an executor whose get_socket_path returns None fails with
\* DisabledApiSocketIsUnsupported before any I/O: the executor's prepare is not
\* called, no task is spawned, no file or directory is created or removed, and no
\* VM is produced.
C16_DisabledSocketRejected ==
    ~ep.api_socket =>
        /\ ~ep.called /\ ep.tasks = <<>>
        /\ fs = call.post.fs
        /\ process_state.tag = "AwaitingPrepare" /\ configuration = None
        /\ call.op = "prepare"
              => /\ call.result = "DisabledApiSocketIsUnsupported"
                 /\ call.effects = <<>>
                 /\ call.post.fs = call.pre.fs

\* prepare was called with a jailed executor whose API socket is disabled, on a host
\* that holds the resources it names
C16_Witness ==
    /\ call.op = "prepare" /\ ~ep.api_socket /\ executor = "jailed"
    /\ call.result = "DisabledApiSocketIsUnsupported"
    /\ \A i \in DOMAIN ep.outer_paths : ep.outer_paths[i] \in fs

\* C17: when the executor's prepare succeeds, the keys of the returned map are
\* exactly the input outer paths, each mapped once, and for every entry the inner
\* path expanded into the jail (the path itself without a jail) exists on disk.
C17_MappingTotal ==
    (ep.phase = "returned" /\ ep.result = "Ok") =>
        /\ DOMAIN ep.path_mappings = {ep.outer_paths[i] : i \in DOMAIN ep.outer_paths}
        /\ \A o \in DOMAIN ep.path_mappings :
              inner_to_outer_path(executor, ep.path_mappings[o]) \in fs

\* the jailed prepare succeeded for two different outer paths
C17_Witness ==
    /\ ep.phase = "returned" /\ ep.result = "Ok" /\ executor = "jailed"
    /\ Len(ep.tasks) = 5
    /\ Cardinality(DOMAIN ep.path_mappings) = 2

\* the results a staging task fails with
TaskErrors == {"ExpectedResourceMissing", "FilesystemError"}

\* C18: when a staging task of the executor's prepare fails, the error is returned to
\* the caller, the staging tasks still pending are cancelled, so that none of them
\* changes the filesystem after prepare has returned, and the jail is left in place.
C18_FailureCancelsPending ==
    (ep.phase = "returned" /\ ep.result \in TaskErrors) =>
        /\ call.op = "prepare" /\ call.result = "ProcessError"
        /\ \E i \in ep.joined : ep.tasks[i].status = ep.result
        /\ ep.late = {}
        /\ executor = "jailed" => JailPath \in fs

C20_ExitStatusMemoized ==
    /\ (ph.last.op \in {"wait", "try_wait"} /\ ph.last.waited # None)
          => ph.last.result = "Ok" /\ ph.last.value = ph.last.waited
    /\ (ph.last.op = "send_sigkill" /\ ph.last.observed)
          => ph.last.result = "Err" /\ ~ph.last.signal

\* a detached handle was waited on and then killed
C20_Witness ==
    /\ ph.kind = "Detached" /\ ph.waited # None
    /\ ph.last.op = "send_sigkill" /\ ph.last.observed /\ ph.last.waited # None
    /\ ph.last.result = "Err"

\* the transfer tasks of the jailed prepare, one per staged resource
Transfers == {i \in DOMAIN ep.tasks : ep.tasks[i].kind \in JailMoveMethods}

\* C21: for every resource staged by the jailed executor, inner_to_outer_path of the
\* renamer's inner path is the location in the jail that prepare transfers the
\* resource to, and that location is the jail root followed by the inner path
\* without its leading "/".
C21_PathRoundTrip ==
    executor = "jailed" =>
        \A i \in Transfers :
            LET r == ep.tasks[i].source
                inner == ep.path_mappings[r]
            IN  /\ inner_to_outer_path(executor, inner) = ep.tasks[i].target
                /\ Head(inner) = "/"
                /\ ep.tasks[i].target = JailPath \o Tail(inner)
                /\ ep.tasks[i].status = "Ok" => ep.tasks[i].target \in fs

\* two resources were transferred into the jail
C21_Witness ==
    /\ executor = "jailed" /\ Cardinality(Transfers) = 2
    /\ \A i \in Transfers : ep.tasks[i].status = "Ok"
    /\ \E i, j \in Transfers : ep.tasks[i].target # ep.tasks[j].target

\* the last component of a path that has one
FinalComponent(p) == IF p # <<>> /\ p[Len(p)] # ".." THEN <<p[Len(p)]>> ELSE <<>>

\* C22: the flat renamer maps an outer path that has a final component to "/"
\* followed by that file name, whatever its parent directories; it fails with
\* PathHasNoFilename for a path without one, such as "/"; and it gives the same
\* result for the same path each time it is called.
C22_FlatRename ==
    (executor = "jailed" /\ ep.called) =>
        /\ \A p \in DOMAIN ep.path_mappings :
              /\ FinalComponent(p) # <<>>
              /\ ep.path_mappings[p] = <<"/">> \o FinalComponent(p)
        /\ \A i \in Transfers : ep.tasks[i].target = JailPath \o FinalComponent(ep.tasks[i].source)
        /\ \A i, j \in Transfers :
              ep.tasks[i].source = ep.tasks[j].source => ep.tasks[i].target = ep.tasks[j].target
        /\ ep.result = "JailRenamerFailed"
              <=> \E i \in DOMAIN ep.outer_paths : FinalComponent(ep.outer_paths[i]) = <<>>
        /\ \A i \in DOMAIN ep.outer_paths :
              FinalComponent(ep.outer_paths[i]) = <<>>
                  => rename_for_jail(ep.outer_paths[i]).result = "PathHasNoFilename"

\* the same resource was named twice and renamed twice, and "/" was refused
C22_Witness ==
    /\ executor = "jailed" /\ ep.called
    /\ ep.outer_paths = <<<<"alt", "rootfs">>, <<>>>>
    /\ ep.result = "JailRenamerFailed"
    /\ ep.path_mappings[<<"alt", "rootfs">>] = <<"/", "rootfs">>

\* the number of bytes of a string, counted place by place
Bytes(id) == Cardinality({<<i, b>> \in (DOMAIN id) \X {1, 2} : b = 1 \/ id[i] = "e'"})

\* an ASCII letter, an ASCII digit or "-"
Allowed(c) == c \in {"a", "Z", "7", "-"}

\* C23: VmmId::new accepts a string exactly when its length is between 5 and 60
\* inclusive and every character is an ASCII letter, a digit or "-"; otherwise it
\* returns TooShort for a length below 5, else TooLong for a length above 60, else
\* ContainsInvalidCharacter.  The length is that of the string in bytes.
C23_VmmIdValidation ==
    call.op = "VmmId::new" =>
        LET id == call.input[1]
        IN  /\ call.result = "Ok"
                  <=> /\ Bytes(id) >= 5 /\ Bytes(id) <= 60
                      /\ \A i \in DOMAIN id : Allowed(id[i])
            /\ call.result =
                  (IF Bytes(id) < 5 THEN "TooShort"
                   ELSE IF Bytes(id) > 60 THEN "TooLong"
                   ELSE IF \E i \in DOMAIN id : ~Allowed(id[i])
                   THEN "ContainsInvalidCharacter"
                   ELSE "Ok")

\* a string of 61 characters, one of them "_", was refused as too long
C23_Witness ==
    /\ call.op = "VmmId::new" /\ call.result = "TooLong"
    /\ Len(call.input[1]) = 61
    /\ \E i \in DOMAIN call.input[1] : call.input[1][i] = "_"

\* C24: SnapshotData.copy and SnapshotData.move_out, when both file operations
\* succeed, rewrite snapshot_path and mem_file_path to the new destinations; when
\* either file operation fails they return the error and leave both recorded paths
\* at their previous values.
C24_SnapshotPaths ==
    (call.op \in {"copy", "move_out"} /\ call.impl = "SnapshotData") =>
        LET in == call.input[1]
            both == call.value[1][1] = "Ok" /\ call.value[1][2] = "Ok"
        IN  /\ both => /\ call.result = "Ok"
                       /\ snapshot[1].snapshot_path = in.new_snapshot_path
                       /\ snapshot[1].mem_file_path = in.new_mem_file_path
            /\ ~both => /\ call.result # "Ok"
                        /\ snapshot[1].snapshot_path = in.self.snapshot_path
                        /\ snapshot[1].mem_file_path = in.self.mem_file_path

\* a move_out whose first rename succeeded and whose second failed kept both paths,
\* after an earlier copy had rewritten them
C24_Witness ==
    /\ call.op = "move_out" /\ call.value = Some(<<"Ok", "Err">>)
    /\ call.result = "FsBackendError"
    /\ snapshot = Some(call.input[1].self)
    /\ call.input[1].self.snapshot_path \in NewSnapshotPaths

\* the outer location of an inner path: inside the jail for the jailed executor
OuterOf(inner) == IF executor = "jailed" THEN JailPath \o inner ELSE inner

\* C25: api_create_snapshot is accepted only in Paused; on success it returns the
\* outer locations of the requested inner snapshot and memory paths and, if and only
\* if the executor is not traceless, appends both outer paths to the VM's snapshot
\* traces; when the request fails no path is recorded and the state is unchanged.
C25_CreateSnapshotTraces ==
    call.op = "api_create_snapshot" =>
        /\ StateBefore # Paused => call.result = "ExpectedState" /\ call.effects = <<>>
        /\ call.result = "Ok" =>
              /\ StateBefore = Paused
              /\ \E c \in CreateSnapshots :
                    /\ call.value = Some([snapshot_path |-> OuterOf(c.snapshot_path),
                                          mem_file_path |-> OuterOf(c.mem_file_path)])
                    /\ snapshot_traces =
                          IF executor = "jailed" THEN call.pre.snapshot_traces
                          ELSE call.pre.snapshot_traces
                                   \o <<OuterOf(c.snapshot_path), OuterOf(c.mem_file_path)>>
              /\ is_paused = call.pre.is_paused
              /\ process_state = call.pre.process_state
        /\ call.result # "Ok" => Unchanged /\ call.value = None

\* the same statement for the VmApi binding alone
C25_VmApiOnly == call.impl = "VmApi" => C25_CreateSnapshotTraces

\* a snapshot of a VM of the unrestricted executor was created through VmApi
C25_VmApiRecorded ==
    /\ call.op = "api_create_snapshot" /\ call.impl = "VmApi" /\ call.result = "Ok"
    /\ executor = "unrestricted" /\ Len(snapshot_traces) = 2

\* the path whose text is that of path followed by text
WithSuffix(path, text) ==
    [i \in DOMAIN path |-> IF i = Len(path) THEN path[i] \o text ELSE path[i]]

\* C26: vsock_listen(host_port) binds the listener at the multiplexer socket path
\* with the text "_<host_port>" appended, <multiplexer>_<host_port>, and records
\* exactly that path in vsock_listener_paths; on a VM without a vsock multiplexer it
\* fails with VsockNotConfigured and records nothing.
C26_ListenerPath ==
    call.op = "vsock_listen" =>
        LET listeners == standard_paths.vsock_listener_paths IN
        IF standard_paths.vsock_multiplexer_path = None
        THEN call.result = "VsockNotConfigured" /\ call.effects = <<>> /\ listeners = <<>>
        ELSE LET expected == WithSuffix(standard_paths.vsock_multiplexer_path[1],
                                        "_" \o call.input[1])
             IN  /\ call.effects = <<Bind(expected)>>
                 /\ listeners # <<>> /\ listeners[Len(listeners)] = expected

\* what the claim says of a VM without a multiplexer, and that one path is recorded
C26_Unconfigured ==
    call.op = "vsock_listen" =>
        /\ standard_paths.vsock_multiplexer_path = None
              => /\ call.result = "VsockNotConfigured" /\ call.effects = <<>>
                 /\ standard_paths.vsock_listener_paths = <<>>
        /\ standard_paths.vsock_multiplexer_path # None
              => /\ Len(call.effects) = 1
                 /\ standard_paths.vsock_listener_paths # <<>>
                 /\ call.effects[1] =
                       Bind(standard_paths.vsock_listener_paths[
                                Len(standard_paths.vsock_listener_paths)])

\* C27: during an API-driven boot the sequence stops at the first request that is
\* answered with an error, cannot be sent or returns an unexpected body: start
\* returns that error and no later boot request is sent, so the final request,
\* /actions or /snapshot/load, is sent only if every request before it succeeded;
\* the requests go out one at a time, each after the answer to the one before.
C27_BootStopsAtFirstFailure ==
    \A kind \in {"New", "FromSnapshot"} :
        (Started(kind) /\ StateBefore = NotStarted) =>
            LET sent == Requests(call.effects)
                order == IF kind = "New" THEN NewBootOrder(call.input[1])
                         ELSE RestoreOrder(call.input[1])
                answered == call.value[1]
            IN  /\ IsPrefix(sent, order)
                /\ answered <= Len(sent) /\ Len(sent) <= answered + 1
                /\ call.result = "Ok" <=> answered = Len(order)
                /\ order[Len(order)] \in {sent[i] : i \in DOMAIN sent}
                        => answered >= Len(order) - 1
                /\ Len(sent) = answered + 1 => call.result \notin {"Ok", "Timeout"}

\* the boot of a new VM stopped at the machine configuration, which was answered
\* with an error, after the boot source and two drives
C27_Witness ==
    /\ Started("New") /\ call.value = Some(3)
    /\ call.result \in {"ApiRespondedWithFault", "ReceivedErrorResponse"}
    /\ Len(Requests(call.effects)) = 4
    /\ call.effects[Len(call.effects)] = Req("PUT", "/machine-config")

\* C28: for a New configuration applied ViaJsonConfiguration(inner_path), start
\* writes the configuration to the outer location of inner_path before the VMM is
\* invoked, invokes the VMM with the config-file override set to inner_path, waits
\* for the API socket, and then sends no boot API request at all.
C28_JsonConfigurationStart ==
    (call.op = "start" /\ call.input # None /\ StateBefore = NotStarted
        /\ call.input[1].kind = "New"
        /\ call.input[1].applier = "ViaJsonConfiguration") =>
        LET written == <<"write", OuterOf(ConfigInner), "">>
            invoked == <<"invoke", <<"Enable", ConfigInner>>, <<ConfigInner>>>>
        IN  /\ Requests(call.effects) = <<>>
            /\ IsPrefix(call.effects, <<written, invoked, SocketObserved>>)
            /\ call.result = "Ok" =>
                  /\ call.effects = <<written, invoked, SocketObserved>>
                  /\ OuterOf(ConfigInner) \in fs
                  /\ process_state.tag = "Started"

\* a VM of the jailed executor was started from its JSON configuration
C28_Witness ==
    /\ call.op = "start" /\ call.result = "Ok" /\ executor = "jailed"
    /\ call.input[1].applier = "ViaJsonConfiguration"
    /\ Len(call.effects) = 3 /\ call.effects[2][3] = Some(ConfigInner)
    /\ JailPath \o ConfigInner \in fs

\* C29: when the jailer is configured to daemonize or to run in a new PID namespace,
\* jailed invoke first waits for the spawned jailer to exit; a non-zero exit yields
\* ProcessExitedWithIncorrectStatus and no handle; only after a zero exit does it
\* read the PID file, retrying until its content parses as an integer, and it
\* returns a Pidfd handle for exactly that PID.  When neither option is set it
\* returns an attached Child handle without waiting for the exit.
C29_JailedInvoke ==
    LET i == invocation
        detaching == i.daemonize \/ i.exec_in_new_pid_ns
        spawned_jailer == i.phase = "returned" /\ i.result # "ProcessSpawnFailed"
    IN  /\ (detaching /\ spawned_jailer) => i.child = "exited"
        /\ (detaching /\ spawned_jailer /\ i.exit_status # 0 /\ i.result # "ProcessWaitError")
              => /\ i.result = "ProcessExitedWithIncorrectStatus"
                 /\ i.handle = None
        /\ (i.phase = "reading" \/ i.read # None \/ i.retried)
              => i.child = "exited" /\ i.exit_status = 0
        /\ (detaching /\ i.phase = "returned" /\ i.result = "Ok")
              => /\ i.handle = Some([kind |-> "Pidfd", pid |-> i.vmm_pid])
                 /\ i.read \in {Some(to_string(i.vmm_pid)),
                                Some(to_string(i.vmm_pid) \o <<"\n">>)}
        /\ (~detaching /\ i.phase = "returned")
              => /\ i.result \in {"Ok", "ProcessSpawnFailed"}
                 /\ i.result = "Ok" => /\ i.handle = Some([kind |-> "Attached", pid |-> 0])
                                       /\ i.child = "running"
        /\ i.phase = "returned" => call.op = "invoke" /\ call.result = i.result
                                      /\ call.value = i.handle

\* a daemonizing jailer exited with 0 before it had written the PID file; invoke
\* read the file again and returned a Pidfd handle for PID 42
C29_Witness ==
    /\ invocation.phase = "returned" /\ invocation.result = "Ok"
    /\ invocation.daemonize /\ ~invocation.exec_in_new_pid_ns
    /\ invocation.retried
    /\ invocation.handle = Some([kind |-> "Pidfd", pid |-> 42])

\* C30: for a detached process handle the exit status returned by wait and try_wait
\* is the status the background watcher recovered and sent through the one-shot
\* channel; status 0 is reported only when the process exited with 0 or the
\* recovery failed, so an abnormal exit is not reported as a successful one.
C30_DetachedStatus ==
    (ph.kind = "Detached" /\ ph.last.op \in {"wait", "try_wait"}
        /\ ph.last.value # None /\ ph.watcher = "sent")
        => ph.last.value = Some(ph.status)

\* the part of the claim that holds: a status is reported only as 0 or as the
\* status of the process, and a status other than 0 never for an exit with 0
C30_ZeroForZero ==
    (ph.kind = "Detached" /\ ph.last.op \in {"wait", "try_wait"}
        /\ ph.last.value # None)
        => /\ ph.last.value \in {Some(0), Some(ph.status)}
           /\ ph.status = 0 => ph.last.value = Some(0)

\* C31: in jailed prepare the recursive ownership downgrade of the jail starts only
\* after every staging task (socket directory, log and metrics files, every
\* transfer) has completed successfully; it is never run when a staging task failed,
\* and so on success every entry staged into the jail is covered by the downgrade.
C31_DowngradeAfterStaging ==
    /\ ep.downgraded =>
          /\ executor = "jailed"
          /\ \A i \in DOMAIN ep.tasks :
                /\ ep.tasks[i].status = "Ok" /\ i \in ep.joined
                /\ ep.tasks[i].target \in fs
          /\ ep.late = {}
    /\ (\E i \in DOMAIN ep.tasks : ep.tasks[i].status \in TaskErrors) => ~ep.downgraded
    /\ (executor = "jailed" /\ ep.phase = "returned" /\ ep.called /\ ep.result = "Ok")
          => ep.downgraded

\* the jail of a prepare with socket, log, metrics and two resources was downgraded
C31_Witness ==
    /\ ep.downgraded /\ ep.result = "Ok" /\ Len(ep.tasks) = 5
    /\ Cardinality(Transfers) = 2

\* the edges of the documented VM state machine, by the names of the states
StateEdges ==
    {<<"NotStarted", "Running">>, <<"Running", "Paused">>, <<"Paused", "Running">>}
        \cup ({"Running", "Paused"} \X {"Exited", "Crashed"})

\* C32: across any sequence of operations and process events the VM state changes
\* only along NotStarted -> Running, Running -> Paused, Paused -> Running and
\* {Running, Paused} -> {Exited, Crashed}: Exited and Crashed are absorbing, also for
\* api_custom_request with new_is_paused, and NotStarted is never re-entered.
C32_StateEdges ==
    [][LET before == ReportedState(process_state, is_paused)
           after == ReportedState(process_state', is_paused')
       IN  before # after => <<before.tag, after.tag>> \in StateEdges]_vars

\* api_custom_request was called on a VM that had crashed while it was paused
C32_Witness ==
    /\ call.op = "api_custom_request" /\ call.result = "ExpectedState"
    /\ StateBefore.tag = "Crashed" /\ StateNow = StateBefore
    /\ is_paused

\* shutdown has returned Ok for a list of methods that is not empty
ShutdownOk ==
    /\ call.op = "shutdown" /\ pc = "idle" /\ call.result = "Ok"
    /\ sd.methods # <<>>

\* C33: whenever shutdown returns Ok for a non-empty method list, the VM state
\* observed immediately afterwards is Exited or Crashed, never Running or Paused, so
\* a cleanup that follows directly is not rejected with ExpectedExitedOrCrashed.
C33_ShutdownOkMeansExited ==
    ShutdownOk =>
        /\ StateNow.tag \in {"Exited", "Crashed"}
        /\ ensure_exited_or_crashed(state(process_state, is_paused))

\* the same statement for a shutdown whose last wait_for_exit did not return an error
C33_UnlessWaitFailed ==
    (ShutdownOk /\ sd.attempts[Len(sd.attempts)].wait # "error")
        => StateNow.tag \in {"Exited", "Crashed"}

\* start, or the boot of the VmApi version, failed with the VMM already spawned
FailedAfterSpawn ==
    /\ call.op \in {"start", "init"} /\ call.input # None /\ StateBefore = NotStarted
    /\ call.result \notin {"Ok", "panic"}
    /\ \/ call.op = "init"
       \/ /\ \E i \in DOMAIN call.effects : call.effects[i][1] = "invoke"
          /\ call.result = "ProcessError"
                => \E i \in DOMAIN call.effects : call.effects[i] = SocketObserved

C35_ConfigurationKept ==
    /\ StateNow = NotStarted => configuration # None
    /\ call.op = "start" => call.result # "panic"

\* what does hold: the configuration is there until the first start that passes the
\* state check, and a start panics only on a VM whose earlier start took it
C35_TakenByFirstStart ==
    /\ (StateNow = NotStarted /\ configuration = None)
          => call.op = "start" /\ call.result # "Ok"
    /\ (call.op = "start" /\ call.result = "panic")
          => StateNow = NotStarted /\ configuration = None /\ call.effects = <<>>

\* a second start found no configuration
C35_SecondStartPanics == ~(call.op = "start" /\ call.result = "panic")

\* C36: VM prepare fails with MissingPathMapping only if some enumerated outer path
\* is absent from the map the executor's prepare returned; when the map contains
\* every enumerated path, also one that two resources name, the paths are rewritten.
C36_MissingOnlyIfUnmapped ==
    (call.op = "prepare" /\ call.result = "MissingPathMapping") =>
        \E i \in DOMAIN ep.outer_paths : ep.outer_paths[i] \notin DOMAIN ep.path_mappings

\* MissingPathMapping is returned only for a path that is enumerated twice: the
\* first rewrite has removed its entry from the map
C36_MissingOnlyIfRepeated ==
    (call.op = "prepare" /\ call.result = "MissingPathMapping") =>
        /\ ep.result = "Ok"
        /\ \A i \in DOMAIN ep.outer_paths : ep.outer_paths[i] \in DOMAIN ep.path_mappings
        /\ \E i, j \in DOMAIN ep.outer_paths : i # j /\ ep.outer_paths[i] = ep.outer_paths[j]

\* a path named by two resources, staged by the jailed executor, fails the rewrite
C36_RepeatedPathFails ==
    ~(/\ call.op = "prepare" /\ call.result = "MissingPathMapping"
      /\ executor = "jailed"
      /\ ep.outer_paths = <<<<"opt", "rootfs">>, <<"opt", "rootfs">>>>)

\* the files a cleanup call was asked to remove
Selected == cleanup_targets(standard_paths, call.input[1])

\* C37: for an Exited or Crashed VM of the jailed executor, cleanup with the removal
\* of logs, metrics or vsock sockets selected returns Ok whenever the executor's
\* cleanup succeeds, and after an Ok cleanup none of the selected files exists.
C37_JailedCleanupSelected ==
    (/\ call.op = "cleanup" /\ executor = "jailed"
     /\ call.result \notin {"ExpectedExitedOrCrashed", "ProcessError"}
     /\ Selected # <<>>) =>
        /\ call.result = "Ok"
        /\ \A i \in DOMAIN Selected : Selected[i] \notin fs

\* with a file selected, the jailed cleanup never returns Ok: it fails with IoError
\* on the first selected file, which went with the jail
C37_FirstSelectedIsGone ==
    (/\ call.op = "cleanup" /\ executor = "jailed"
     /\ call.result \notin {"ExpectedExitedOrCrashed", "ProcessError"}
     /\ Selected # <<>>) =>
        /\ call.result = "IoError"
        /\ call.effects = <<ExecutorCleanup, RemoveFile(Selected[1])>>
        /\ IsPrefix(Parent(JailPath), Selected[1])
        /\ \A i \in DOMAIN Selected : Selected[i] \notin fs

\* the listener sockets vsock_listen has recorded exist
ListenersBound ==
    \A i \in DOMAIN standard_paths.vsock_listener_paths :
        standard_paths.vsock_listener_paths[i] \in fs

\* C38: every path in vsock_listener_paths belongs to a listener that vsock_listen
\* bound: a vsock_listen call whose bind fails leaves vsock_listener_paths unchanged.
C38_OnlyBoundListeners ==
    (call.op = "vsock_listen" /\ call.result = "CannotBind") =>
        \A i \in DOMAIN standard_paths.vsock_listener_paths :
            standard_paths.vsock_listener_paths[i] # call.effects[1][2]

\* a cleanup of an unrestricted VM with the vsock removal selected failed on a
\* listener socket that no bind had created
C38_CleanupFailsOnUnbound ==
    ~(/\ call.op = "cleanup" /\ call.result = "IoError" /\ executor = "unrestricted"
      /\ call.effects[Len(call.effects)][2] \in
            {standard_paths.vsock_listener_paths[i] :
                i \in DOMAIN standard_paths.vsock_listener_paths}
      /\ call.effects[Len(call.effects)][2] \notin call.pre.fs)

\* vsock_listen records the listener path whatever bind returns
C38_RecordedBeforeBind ==
    (call.op = "vsock_listen" /\ call.result # "VsockNotConfigured") =>
        /\ standard_paths.vsock_listener_paths # <<>>
        /\ standard_paths.vsock_listener_paths[Len(standard_paths.vsock_listener_paths)]
                = call.effects[1][2]

\* C39: for a detached process handle neither wait nor try_wait reports an exit
\* status for a process the background watcher has not observed to exit; if the
\* watcher ends without sending, wait does not return and memoize a status.
C39_OnlyObservedExits ==
    (ph.kind = "Detached" /\ ph.last.op \in {"wait", "try_wait"} /\ ph.last.value # None)
        => ph.watcher = "sent"

\* wait returned a status for a detached process that is still running
C39_StatusWhileRunning ==
    ~(/\ ph.kind = "Detached" /\ ph.last.op = "wait" /\ ph.last.value # None
      /\ ph.proc = "running")

\* try_wait by itself keeps to the watcher: it reports a status only after the
\* watcher has sent or after a wait has memoized one, and a status reported without
\* the watcher's message is the 0 that wait memoized
C39_TryWaitKeepsToWatcher ==
    /\ (ph.kind = "Detached" /\ ph.last.op = "try_wait" /\ ph.last.value # None)
            => (ph.watcher = "sent" \/ ph.last.waited # None)
    /\ (ph.kind = "Detached" /\ ph.exited # None /\ ph.watcher # "sent")
            => (ph.exited = Some(0) /\ ph.waited = Some(0) /\ ph.watcher = "dropped")

\* C40: after SnapshotData.move_out returns, Ok or Err, snapshot_path and
\* mem_file_path each name the current location of the corresponding file, also when
\* exactly one of the two concurrent renames succeeded.
C40_PathsFollowFiles ==
    (call.op = "move_out" /\ call.impl = "SnapshotData") =>
        LET in == call.input[1] IN
        /\ in.self.snapshot_path \in call.pre.fs => snapshot[1].snapshot_path \in fs
        /\ in.self.mem_file_path \in call.pre.fs => snapshot[1].mem_file_path \in fs

\* a recorded path is stale only after a move_out that failed with exactly one
\* rename done: the file of that rename lies at the destination which the
\* SnapshotData does not record
C40_StaleOnlyAfterPartial ==
    (call.op = "move_out" /\ call.impl = "SnapshotData") =>
        LET in == call.input[1]
            o == call.value[1]
        IN  /\ (in.self.snapshot_path \in call.pre.fs /\ snapshot[1].snapshot_path \notin fs)
                    => /\ o[1] = "Ok" /\ o[2] # "Ok" /\ call.result = "FsBackendError"
                       /\ in.new_snapshot_path \in fs
                       /\ snapshot[1].snapshot_path = in.self.snapshot_path
            /\ (in.self.mem_file_path \in call.pre.fs /\ snapshot[1].mem_file_path \notin fs)
                    => /\ o[2] = "Ok" /\ o[1] # "Ok" /\ call.result = "FsBackendError"
                       /\ in.new_mem_file_path \in fs
                       /\ snapshot[1].mem_file_path = in.self.mem_file_path
            /\ call.result = "Ok" => {snapshot[1].snapshot_path, snapshot[1].mem_file_path} \subseteq fs

====
